---- MODULE Spec2Model ----
(***************************************************************************)
(* Model of the brainstormy graph store (store/graphStore.ts), the         *)
(* semantic parent resolver (utils/semantic.ts) and the layout call        *)
(* (utils/layout.ts).                                                      *)
(*                                                                         *)
(* Similarities are fixed-point numbers in units of 1/SimUnit.  A node's   *)
(* missing vector / parentId (JS undefined) is the value Undefined / <<>>. *)
(* createdAt timestamps and edge styling are not part of the model.        *)
(***************************************************************************)
EXTENDS Integers, Sequences, FiniteSets, Bags, TLC

\* the store's fields
VARIABLES nodes, edges, selectedNodeId, colorIndex, isProcessing,
          history, historyIndex
\* calls: the addNode calls (position and captured locals of each);
\* layouts: the layoutGraph calls awaiting getLayoutedElements;
\* synced: the payload last handed to syncActiveProjectData;
\* ops: the number of user operations so far
VARIABLES calls, layouts, synced, ops
\* observers: lastOp names the handler that ran last and its argument;
\* recorded lists every snapshot handed to the history, oldest first;
\* undone tells whether undo has moved the cursor
VARIABLES lastOp, recorded, undone
\* the project store: the id of the active project, and the data of each
\* project as it was when the project was last switched away from (the
\* data of the active project is synced)
VARIABLES activeProjectId, stored
\* the embedding services of the session: the provider chosen in the
\* settings, and whether the local model and the server call fail
VARIABLES services
\* the importProject calls of the session: where each call is, the parsed
\* file, and the ImportResult the call has returned
VARIABLES imports
\* the contentHash of each project the session starts with, and the syncs
\* of the active project (positions in recorded) whose generateContentHash
\* promise has resolved
VARIABLES contentHashes, resolved

vars == <<nodes, edges, selectedNodeId, colorIndex, isProcessing,
          history, historyIndex, calls, layouts, synced, ops,
          lastOp, recorded, undone, activeProjectId, stored, services,
          imports, contentHashes, resolved>>

\* the fields of the project store
projectVars == <<activeProjectId, stored, imports, contentHashes, resolved>>

(***************************** bounds *************************************)
\* user operations (handler invocations) in one behaviour
MaxOps == 3
\* importProject calls in one behaviour
MaxImports == 2

(************************* program constants ******************************)
maxHistorySize == 50

TOPIC_COLORS == <<"#3b82f6", "#10b981", "#f59e0b", "#ec4899", "#8b5cf6",
                  "#06b6d4", "#f97316", "#84cc16", "#e11d48", "#6366f1">>

Undefined == "undefined"
NoVector == <<>>

\* one unit of similarity: cosine 1.0
SimUnit == 10 * 10 * 10
\* findParentForNewNode(embedding, nodes, edges, 0.4)
similarityThreshold == (4 * SimUnit) \div 10

(***************************** inputs *************************************)
Texts == {"t1", "t2"}
Labels == {"L1"}
ProjectIds == {"p1", "p2"}

\* the texts of the nodes a session starts with
SeedTexts == {"t1", "t3", "t4", "t5"}

\* the settings the store starts with, and both services working
DefaultServices ==
    [embeddingProvider |-> "local", localFails |-> FALSE, serverFails |-> FALSE]

Services ==
    [embeddingProvider : {"local", "server"}, localFails : BOOLEAN,
     serverFails : BOOLEAN]

\* the local model: one fixed vector per text.  With t1 the cosine of t3
\* is 0.4, of t4 0.6, of t5 -1; with t2 it is 0.8, 0.8 and 0.  t6 mirrors
\* t3: its cosine with t1 is 0.4 and the sum of t3 and t6 points along t1
getLocalEmbedding(text) ==
    CASE text = "t1" -> <<1, 0, 0, 0>>
      [] text = "t2" -> <<0, 1, 0, 0>>
      [] text = "t3" -> <<2, 4, 2, 1>>
      [] text = "t4" -> <<3, 4, 0, 0>>
      [] text = "t6" -> <<2, 0 - 4, 0 - 2, 0 - 1>>
      [] OTHER -> <<0 - 1, 0, 0, 0>>

\* data.embedding of the server's answer: the server's model has a
\* dimension of its own
ServerData(text) ==
    CASE text = "t1" -> <<1, 0, 0>>
      [] text = "t2" -> <<0, 1, 0>>
      [] OTHER -> <<0, 0, 1>>

\* the pseudo-random vector seeded by the text, of the dimension of the
\* local models
generateFallbackEmbedding(text) ==
    CASE text = "t1" -> <<1, 1, 0, 0 - 1>>
      [] text = "t2" -> <<0 - 1, 1, 1, 0>>
      [] OTHER -> <<1, 0 - 1, 1, 1>>

\* a promise that rejects
Rejected == <<"rejected">>

\* getServerEmbedding without its catch
getServerEmbeddingUncaught(text) ==
    IF services.serverFails THEN Rejected ELSE ServerData(text)

\* fetch throws, answers with a status that is not ok, or with a body that
\* is no JSON: the catch returns the fallback
getServerEmbedding(text) ==
    IF services.serverFails THEN generateFallbackEmbedding(text) ELSE ServerData(text)

\* loadModel or getLocalEmbedding throws: the catch goes to the server
getLocalEmbeddingWithFallback(text) ==
    IF services.localFails THEN getServerEmbedding(text) ELSE getLocalEmbedding(text)

getEmbedding(text) ==
    IF services.embeddingProvider = "local"
    THEN getLocalEmbeddingWithFallback(text)
    ELSE getServerEmbedding(text)

(*************************** initial graph ********************************)
initialNodes ==
    << [id |-> "root", type |-> "anchor", position |-> [x |-> 0, y |-> 0],
        label |-> "Brainstorm", topic |-> "Main", color |-> "#636ef1",
        vector |-> NoVector, parentId |-> Undefined, isAnchor |-> TRUE] >>

initialEdges == << >>

(***************************** helpers ************************************)
Range(s) == {s[i] : i \in 1..Len(s)}

Ids(ns) == {ns[i].id : i \in 1..Len(ns)}

RECURSIVE Filter(_, _)
\* Array.prototype.filter with the predicate given as the set of kept values
Filter(s, keep) ==
    IF s = << >> THEN << >>
    ELSE IF Head(s) \in keep THEN <<Head(s)>> \o Filter(Tail(s), keep)
         ELSE Filter(Tail(s), keep)

\* nodes.find((n) => n.id === id) || null, as a sequence of 0 or 1 nodes
FindNode(ns, id) ==
    IF \E i \in 1..Len(ns) : ns[i].id = id
    THEN <<ns[CHOOSE i \in 1..Len(ns) :
                  ns[i].id = id /\ \A j \in 1..(i-1) : ns[j].id # id]>>
    ELSE << >>

\* JSON.parse(JSON.stringify(x)): a structural copy; values here are
\* immutable, so the copy of a value is that value
JsonClone(x) == x

(************************* utils/semantic.ts ******************************)
RECURSIVE Dot(_, _)
Dot(a, b) == IF a = << >> \/ b = << >> THEN 0
             ELSE Head(a) * Head(b) + Dot(Tail(a), Tail(b))

RECURSIVE ISqrt(_, _, _)
\* the largest r in lo..hi with r * r <= n, by bisection
ISqrt(n, lo, hi) ==
    IF lo = hi THEN lo
    ELSE LET mid == (lo + hi + 1) \div 2
         IN  IF mid * mid <= n THEN ISqrt(n, mid, hi) ELSE ISqrt(n, lo, mid - 1)

\* floor(SimUnit * dp / sqrt(ma * mb)) for dp >= 0
ScaledQuotient(dp, ma, mb) ==
    ISqrt((SimUnit * SimUnit * dp * dp) \div (ma * mb), 0, SimUnit)

\* the return of cosineSimilarity from the three sums of its loop
\* (magnitudeA and magnitudeB before Math.sqrt)
Quotient(dotProduct, magnitudeA, magnitudeB) ==
    IF magnitudeA = 0 \/ magnitudeB = 0 THEN 0
    ELSE (IF dotProduct >= 0 THEN 1 ELSE 0 - 1)
         * ScaledQuotient(IF dotProduct >= 0 THEN dotProduct ELSE 0 - dotProduct,
                          magnitudeA, magnitudeB)

\* cosineSimilarity without the comparison of the lengths
cosineSimilarityUnchecked(vecA, vecB) ==
    Quotient(Dot(vecA, vecB), Dot(vecA, vecA), Dot(vecB, vecB))

cosineSimilarity(vecA, vecB) ==
    IF Len(vecA) # Len(vecB) THEN 0
    ELSE Quotient(Dot(vecA, vecB), Dot(vecA, vecA), Dot(vecB, vecB))

RECURSIVE VecSum(_, _)
VecSum(a, b) == IF a = << >> THEN << >>
                ELSE IF b = << >> THEN a
                ELSE <<Head(a) + Head(b)>> \o VecSum(Tail(a), Tail(b))

RECURSIVE SumVectors(_, _)
SumVectors(vectors, acc) ==
    IF vectors = << >> THEN acc
    ELSE SumVectors(Tail(vectors), VecSum(acc, Head(vectors)))

\* the centroid scaled by vectors.length (cosine is scale invariant);
\* its dimension is that of vectors[0]
computeCentroid(vectors) ==
    IF vectors = << >> THEN << >>
    ELSE SumVectors(Tail(vectors), Head(vectors))

\* childrenMap.get(id): the targets of the edges leaving id, in edge order
RECURSIVE buildChildren(_, _)
buildChildren(es, id) ==
    IF es = << >> THEN << >>
    ELSE LET rest == buildChildren(Tail(es), id)
         IN  IF Head(es).source = id /\ Head(es).target \notin Range(rest)
             THEN <<Head(es).target>> \o rest
             ELSE rest

RECURSIVE collectVectors(_, _, _, _)
RECURSIVE collectChildren(_, _, _, _)
\* pre-order collection of the vectors of the subtree of id; fuel bounds the
\* recursion depth by the number of nodes
collectVectors(id, ns, es, fuel) ==
    LET found == FindNode(ns, id)
        own == IF found # << >> /\ found[1].vector # NoVector
               THEN <<found[1].vector>> ELSE << >>
    IN  IF fuel = 0 THEN own
        ELSE own \o collectChildren(buildChildren(es, id), ns, es, fuel - 1)
collectChildren(children, ns, es, fuel) ==
    IF children = << >> THEN << >>
    ELSE collectVectors(Head(children), ns, es, fuel)
         \o collectChildren(Tail(children), ns, es, fuel)

getDescendantVectors(nodeId, ns, es) == collectVectors(nodeId, ns, es, Len(ns))

NoNode == << >>

RECURSIVE SimpleScan(_, _, _, _)
\* the loop of the simple case: strict > keeps the first maximum
SimpleScan(cands, newVector, bestNode, maxSimilarity) ==
    IF cands = << >> THEN [node |-> bestNode, similarity |-> maxSimilarity]
    ELSE LET similarity == cosineSimilarity(newVector, Head(cands).vector)
         IN  IF similarity > maxSimilarity
             THEN SimpleScan(Tail(cands), newVector, <<Head(cands)>>, similarity)
             ELSE SimpleScan(Tail(cands), newVector, bestNode, maxSimilarity)

\* below every similarity and every score
MinusInfinity == 0 - (2 * SimUnit)

\* one iteration of the two-pass loop on node, given its directSim, its
\* clusterSim and whether it has children; acc carries bestClusterHead,
\* bestClusterScore (in tenths of a similarity unit: clusterSim * 7 +
\* directSim * 3), bestClusterSimilarity, bestClusterDirectSim, bestLeaf,
\* bestLeafScore, bestLeafSimilarity
ClusterStep(acc, node, directSim, clusterSim, hasChildren) ==
    IF hasChildren
    THEN IF clusterSim * 7 + directSim * 3 > acc.bestClusterScore
         THEN [acc EXCEPT !.bestClusterHead = <<node>>,
                          !.bestClusterScore = clusterSim * 7 + directSim * 3,
                          !.bestClusterSimilarity = clusterSim,
                          !.bestClusterDirectSim = directSim]
         ELSE acc
    ELSE IF directSim > acc.bestLeafScore
         THEN [acc EXCEPT !.bestLeaf = <<node>>,
                          !.bestLeafScore = directSim,
                          !.bestLeafSimilarity = directSim]
         ELSE acc

RECURSIVE ClusterScan(_, _, _, _, _)
\* the two-pass loop over the candidates
ClusterScan(cands, newVector, ns, es, acc) ==
    IF cands = << >> THEN acc
    ELSE ClusterScan(Tail(cands), newVector, ns, es,
             ClusterStep(acc, Head(cands),
                 cosineSimilarity(newVector, Head(cands).vector),
                 cosineSimilarity(newVector,
                     computeCentroid(getDescendantVectors(Head(cands).id, ns, es))),
                 buildChildren(es, Head(cands).id) # << >>))

\* the decision taken on the scores: the leaf when its similarity beats the
\* blended score of the head
ClusterDecisionByScore(r) ==
    IF r.bestLeaf # NoNode /\ r.bestClusterHead # NoNode
    THEN IF r.bestLeafScore * 10 > r.bestClusterScore
         THEN [node |-> r.bestLeaf, similarity |-> r.bestLeafSimilarity]
         ELSE [node |-> r.bestClusterHead, similarity |-> r.bestClusterSimilarity]
    ELSE IF r.bestClusterHead # NoNode
    THEN [node |-> r.bestClusterHead, similarity |-> r.bestClusterSimilarity]
    ELSE [node |-> r.bestLeaf, similarity |-> r.bestLeafSimilarity]

\* the decision after the loop
ClusterDecision(r) ==
    IF r.bestLeaf # NoNode /\ r.bestClusterHead # NoNode
    THEN IF r.bestLeafScore > r.bestClusterDirectSim
         THEN [node |-> r.bestLeaf, similarity |-> r.bestLeafSimilarity]
         ELSE [node |-> r.bestClusterHead, similarity |-> r.bestClusterSimilarity]
    ELSE IF r.bestClusterHead # NoNode
    THEN [node |-> r.bestClusterHead, similarity |-> r.bestClusterSimilarity]
    ELSE IF r.bestLeaf # NoNode
    THEN [node |-> r.bestLeaf, similarity |-> r.bestLeafSimilarity]
    ELSE [node |-> r.bestClusterHead, similarity |-> r.bestClusterSimilarity]

\* findBestParent without the return for an empty candidate list
BestAmongNoEmptyCase(candidates, newVector, ns, es) ==
    SimpleScan(candidates, newVector, NoNode, 0 - SimUnit)

\* findBestParent on its candidates
BestAmong(candidates, newVector, ns, es) ==
    IF candidates = << >> THEN [node |-> NoNode, similarity |-> 0]
    ELSE IF Len(candidates) < 3 \/ Len(es) = 0
    THEN SimpleScan(candidates, newVector, NoNode, 0 - SimUnit)
    ELSE ClusterDecision(
             ClusterScan(candidates, newVector, ns, es,
                 [bestClusterHead |-> NoNode, bestClusterScore |-> 10 * MinusInfinity,
                  bestClusterSimilarity |-> 0, bestClusterDirectSim |-> 0,
                  bestLeaf |-> NoNode, bestLeafScore |-> MinusInfinity,
                  bestLeafSimilarity |-> 0]))

\* findBestParent with the root left among the candidates
findBestParentWithRoot(newVector, ns, es) ==
    BestAmong(Filter(ns, {n \in Range(ns) : n.vector # NoVector}), newVector, ns, es)

findBestParent(newVector, ns, es) ==
    BestAmong(Filter(ns, {n \in Range(ns) : n.id # "root" /\ n.vector # NoVector}),
              newVector, ns, es)

\* the threshold test with >= for >
AtOrAboveThreshold(result, threshold) ==
    IF result.node # NoNode /\ result.similarity >= threshold
    THEN result.node ELSE NoNode

\* result.node && result.similarity > similarityThreshold
AboveThreshold(result, threshold) ==
    IF result.node # NoNode /\ result.similarity > threshold
    THEN result.node ELSE NoNode

findParentForNewNode(newVector, ns, es, threshold) ==
    AboveThreshold(findBestParent(newVector, ns, es), threshold)

(*************************** utils/layout.ts ******************************)
RECURSIVE LayerOf(_, _, _)
\* the layer the layered algorithm gives a node: its distance from a node
\* without incoming edge (fuel bounds the walk by the number of edges)
LayerOf(id, es, fuel) ==
    LET incoming == {i \in 1..Len(es) : es[i].target = id}
    IN  IF incoming = {} \/ fuel = 0 THEN 0
        ELSE LET first == CHOOSE i \in incoming : \A j \in incoming : i <= j
             IN  1 + LayerOf(es[first].source, es, fuel - 1)

\* elk.layout (direction RIGHT): x by layer, y by the rank within the layer;
\* every node is returned with its new position, the edges as they were
getLayoutedElements(ns, es) ==
    IF Len(ns) = 0 THEN [nodes |-> ns, edges |-> es]
    ELSE LET layer(i) == LayerOf(ns[i].id, es, Len(es))
             rank(i) == Cardinality({j \in 1..(i-1) : layer(j) = layer(i)})
         IN  [nodes |-> [i \in 1..Len(ns) |->
                            [ns[i] EXCEPT !.position = [x |-> layer(i), y |-> rank(i)]]],
              edges |-> es]

(************************* store/graphStore.ts ****************************)
\* a snapshot, as the observers write it
Snapshot(ns, es, sel, ci) ==
    [nodes |-> ns, edges |-> es, selectedNodeId |-> sel, colorIndex |-> ci]

\* newState without the selection of the moment
HistoryStateRootSelected(ns, es, sel, ci) ==
    [nodes |-> JsonClone(ns), edges |-> JsonClone(es),
     selectedNodeId |-> "root", colorIndex |-> ci]

HistoryState(ns, es, sel, ci) ==
    [nodes |-> JsonClone(ns), edges |-> JsonClone(es),
     selectedNodeId |-> sel, colorIndex |-> ci]

\* saveToHistory with newHistory.pop() for newHistory.shift()
saveToHistoryPop(ns, es, sel, ci, h, idx) ==
    LET newState == HistoryState(ns, es, sel, ci)
        newHistory == Append(SubSeq(h, 1, idx + 1), newState)
    IN  IF Len(newHistory) > maxHistorySize
        THEN [history |-> SubSeq(newHistory, 1, Len(newHistory) - 1),
              historyIndex |-> maxHistorySize - 1]
        ELSE [history |-> newHistory, historyIndex |-> idx + 1]

\* saveToHistory without the size limit
saveToHistoryUnbounded(ns, es, sel, ci, h, idx) ==
    [history |-> Append(SubSeq(h, 1, idx + 1), HistoryState(ns, es, sel, ci)),
     historyIndex |-> idx + 1]

\* saveToHistory without history.slice(0, historyIndex + 1)
saveToHistoryNoSlice(ns, es, sel, ci, h, idx) ==
    LET newState == HistoryState(ns, es, sel, ci)
        newHistory == Append(h, newState)
    IN  IF Len(newHistory) > maxHistorySize
        THEN [history |-> Tail(newHistory), historyIndex |-> maxHistorySize - 1]
        ELSE [history |-> newHistory, historyIndex |-> idx + 1]

\* saveToHistory on the store state (ns, es, sel, ci, h, idx): the new
\* history and historyIndex (0-based, as in the source)
saveToHistory(ns, es, sel, ci, h, idx) ==
    LET newState == HistoryState(ns, es, sel, ci)
        newHistory == Append(SubSeq(h, 1, idx + 1), newState)
    IN  IF Len(newHistory) > maxHistorySize
        THEN [history |-> Tail(newHistory), historyIndex |-> maxHistorySize - 1]
        ELSE [history |-> newHistory, historyIndex |-> idx + 1]

canUndo == historyIndex > 0

canRedo == historyIndex < Len(history) - 1

\* syncToProject: the payload handed to syncActiveProjectData
syncToProject(ns, es, ci) == [nodes |-> ns, edges |-> es, colorIndex |-> ci]

\* an addNode call that has not started or has returned
IdleCall == [pc |-> "idle", text |-> "", forceParentId |-> Undefined,
             nodes |-> << >>, edges |-> << >>, colorIndex |-> 0,
             newNodeId |-> Undefined, newNodes |-> << >>, newEdges |-> << >>,
             during |-> {}, deleted |-> {}, project |-> Undefined]

Calls == 1..MaxOps

InFlight == {c \in Calls : calls[c].pc \in {"embedding", "layout"}}

\* `n-${Date.now()}-${random}`: an id no other call gets
NewNodeId(c) == "n" \o ToString(c)

\* addNode up to the first await: the destructured get() and isProcessing
addNode(c, text, forceParentId) ==
    /\ UNCHANGED <<projectVars, services>>
    /\ calls[c].pc = "idle"
    /\ \A d \in Calls : d < c => calls[d].pc # "idle"
    /\ calls' = [calls EXCEPT ![c] =
                    [IdleCall EXCEPT !.pc = "embedding", !.text = text,
                                     !.forceParentId = forceParentId,
                                     !.nodes = nodes, !.edges = edges,
                                     !.colorIndex = colorIndex,
                                     !.during = InFlight,
                                     !.project = activeProjectId]]
    /\ isProcessing' = TRUE
    /\ lastOp' = [op |-> "addNode", arg |-> NewNodeId(c)]
    /\ UNCHANGED <<nodes, edges, selectedNodeId, colorIndex, history,
                   historyIndex, layouts, synced, recorded, undone>>

\* addNodeToSelected: addNode(text, selectedNodeId || undefined)
addNodeToSelected(c, text) == addNode(c, text, selectedNodeId)

\* InputBar.handleSubmit: needs !isProcessing; mode auto or child/current
handleSubmit(c, text, mode) ==
    /\ ops < MaxOps
    /\ ~isProcessing
    /\ IF mode = "auto" THEN addNode(c, text, Undefined)
       ELSE addNodeToSelected(c, text)
    /\ ops' = ops + 1

\* CommandPalette.handleAddSuggestion: no isProcessing check
handleAddSuggestion(c, suggestion) ==
    /\ ops < MaxOps
    /\ addNode(c, suggestion, selectedNodeId)
    /\ ops' = ops + 1

\* value || fallback on an optional string
OrDefault(value, fallback) ==
    IF value = Undefined \/ value = "" THEN fallback ELSE value

\* the forced branch that keeps the defaults of nodeColor and nodeTopic
ForcedPlacementDefaults(parentNode, embedding) ==
    [parentNode |-> parentNode, newNodeType |-> "satellite",
     nodeColor |-> "#636ef1", nodeTopic |-> "General", embedding |-> embedding]

\* the placement decided from the captured nodes / edges / colorIndex
\* the branch with forceParentId: a satellite of the forced parent
ForcedPlacement(parentNode, embedding) ==
    [parentNode |-> parentNode, newNodeType |-> "satellite",
     nodeColor |-> IF parentNode # NoNode
                   THEN OrDefault(parentNode[1].color, "#636ef1") ELSE "#636ef1",
     nodeTopic |-> IF parentNode # NoNode
                   THEN OrDefault(parentNode[1].topic, "General") ELSE "General",
     embedding |-> embedding]

\* the branch without forceParentId: a satellite of the similar parent, or
\* a new anchor under root
AutoPlacement(parentNode, text, embedding, ns, ci) ==
    IF parentNode # NoNode
    THEN [parentNode |-> parentNode, newNodeType |-> "satellite",
          nodeColor |-> OrDefault(parentNode[1].color, "#636ef1"),
          nodeTopic |-> OrDefault(parentNode[1].topic, "General"),
          embedding |-> embedding]
    ELSE [parentNode |-> FindNode(ns, "root"), newNodeType |-> "anchor",
          nodeColor |-> TOPIC_COLORS[(ci % Len(TOPIC_COLORS)) + 1],
          nodeTopic |-> text, embedding |-> embedding]

Placement(text, forceParentId, ns, es, ci) ==
    IF forceParentId # Undefined
    THEN ForcedPlacement(FindNode(ns, forceParentId), getEmbedding(text))
    ELSE AutoPlacement(findParentForNewNode(getEmbedding(text), ns, es,
                                            similarityThreshold),
                       text, getEmbedding(text), ns, ci)

NewNode(newNodeId, text, p) ==
    [id |-> newNodeId, type |-> p.newNodeType, position |-> [x |-> 0, y |-> 0],
     label |-> text, topic |-> p.nodeTopic, color |-> p.nodeColor,
     vector |-> p.embedding,
     parentId |-> IF p.parentNode # NoNode THEN p.parentNode[1].id ELSE Undefined,
     isAnchor |-> (p.newNodeType = "anchor")]

NewEdge(newNodeId, p) ==
    [source |-> IF p.parentNode # NoNode THEN p.parentNode[1].id ELSE "root",
     target |-> newNodeId]

\* addNode from the resolved embedding to the layout await, newNodeId
\* being the id it makes
addNodeEmbeddedWithId(c, newNodeId) ==
    /\ UNCHANGED <<projectVars, services>>
    /\ calls[c].pc = "embedding"
    /\ IF getEmbedding(calls[c].text) = Rejected
       THEN \* catch (error): set({ isProcessing: false })
            /\ calls' = [calls EXCEPT ![c].pc = "failed"]
            /\ isProcessing' = FALSE
            /\ UNCHANGED colorIndex
       ELSE \E k \in {calls[c]} :
            \E p \in {Placement(k.text, k.forceParentId, k.nodes, k.edges, k.colorIndex)} :
                /\ colorIndex' = IF p.newNodeType = "anchor" THEN k.colorIndex + 1
                                 ELSE colorIndex
                /\ calls' = [calls EXCEPT ![c].pc = "layout",
                                          ![c].newNodeId = newNodeId,
                                          ![c].newNodes = Append(k.nodes, NewNode(newNodeId, k.text, p)),
                                          ![c].newEdges = Append(k.edges, NewEdge(newNodeId, p))]
                /\ UNCHANGED isProcessing
    /\ lastOp' = [op |-> "addNodeEmbedded", arg |-> NewNodeId(c)]
    /\ UNCHANGED <<nodes, edges, selectedNodeId, history,
                   historyIndex, layouts, synced, ops, recorded, undone>>

\* addNode from the resolved embedding to the layout await, the id being
\* the one no other call gets
addNodeEmbedded(c) == addNodeEmbeddedWithId(c, NewNodeId(c))

\* the ids of the form of NewNodeId in use when call c makes its id: those
\* of the nodes of the store and of the nodes the call has read, and those
\* made by the calls in flight
UsedIds(c) ==
    (Ids(nodes) \cup Ids(calls[c].nodes) \cup {calls[d].newNodeId : d \in Calls})
       \ {"root", Undefined}

\* addNode with a timestamp and a random suffix that may repeat
addNodeEmbeddedAnyId(c) ==
    \E newNodeId \in {NewNodeId(c)} \cup UsedIds(c) : addNodeEmbeddedWithId(c, newNodeId)

\* addNode after the layout await: set, saveToHistory, syncToProject
addNodeLayouted(c) ==
    /\ UNCHANGED <<projectVars, services>>
    /\ calls[c].pc = "layout"
    /\ LET layouted == getLayoutedElements(calls[c].newNodes, calls[c].newEdges)
           saved == saveToHistory(layouted.nodes, layouted.edges, calls[c].newNodeId,
                                  colorIndex, history, historyIndex)
       IN  /\ nodes' = layouted.nodes
           /\ edges' = layouted.edges
           /\ selectedNodeId' = calls[c].newNodeId
           /\ isProcessing' = FALSE
           /\ history' = saved.history
           /\ historyIndex' = saved.historyIndex
           /\ synced' = syncToProject(layouted.nodes, layouted.edges, colorIndex)
           /\ recorded' = Append(recorded, Snapshot(layouted.nodes, layouted.edges,
                                                        calls[c].newNodeId, colorIndex))
    /\ lastOp' = [op |-> "addNodeLayouted", arg |-> NewNodeId(c)]
    /\ calls' = [calls EXCEPT ![c] = [IdleCall EXCEPT !.pc = "done",
                                          !.newNodeId = calls[c].newNodeId,
                                          !.during = calls[c].during]]
    /\ UNCHANGED <<colorIndex, layouts, ops, undone>>

\* findDescendants that adds the id and does not descend
findDescendantsShallow(id, es, fuel) == {id}

RECURSIVE findDescendants(_, _, _)
\* the ids findDescendants adds to descendantIds, starting from id
findDescendants(id, es, fuel) ==
    {id} \cup (IF fuel = 0 THEN {}
               ELSE UNION {findDescendants(es[i].target, es, fuel - 1) :
                              i \in {j \in 1..Len(es) : es[j].source = id}})

RECURSIVE findDescendantsOverflows(_, _, _)
\* findDescendants(id) recurses deeper than fuel more calls: with fuel the
\* number of edges, the edges below id form a cycle and the recursion,
\* which keeps no set of visited ids, has no end but the overflow of the
\* call stack
findDescendantsOverflows(id, es, fuel) ==
    \E j \in 1..Len(es) :
        /\ es[j].source = id
        /\ fuel = 0 \/ findDescendantsOverflows(es[j].target, es, fuel - 1)

\* nodes.filter((n) => !descendantIds.has(n.id))
nodesWithout(ns, descendantIds) ==
    Filter(ns, {n \in Range(ns) : n.id \notin descendantIds})

\* the edge filter with || for &&
edgesWithoutEither(es, descendantIds) ==
    Filter(es, {e \in Range(es) :
                  e.source \notin descendantIds \/ e.target \notin descendantIds})

\* edges.filter((e) => !has(e.source) && !has(e.target))
edgesWithout(es, descendantIds) ==
    Filter(es, {e \in Range(es) :
                  e.source \notin descendantIds /\ e.target \notin descendantIds})

\* deleteNode without the return for the root
deleteNodeUnguarded(nodeId) ==
    /\ UNCHANGED <<projectVars, services>>
    /\ ops < MaxOps
    /\ ops' = ops + 1
    /\ lastOp' = [op |-> "deleteNode", arg |-> nodeId]
    /\ undone' = undone
    /\ LET descendantIds == findDescendants(nodeId, edges, Len(edges))
                newNodes == nodesWithout(nodes, descendantIds)
                newEdges == edgesWithout(edges, descendantIds)
                newSelected == IF selectedNodeId = nodeId THEN "root" ELSE selectedNodeId
                saved == saveToHistory(newNodes, newEdges, newSelected, colorIndex,
                                       history, historyIndex)
            IN  /\ nodes' = newNodes
                /\ edges' = newEdges
                /\ selectedNodeId' = newSelected
                /\ history' = saved.history
                /\ historyIndex' = saved.historyIndex
                /\ synced' = syncToProject(newNodes, newEdges, colorIndex)
                \* layoutGraph() up to its await
                /\ layouts' = layouts (+) SetToBag({[nodes |-> newNodes, edges |-> newEdges]})
                /\ recorded' = Append(recorded, Snapshot(newNodes, newEdges,
                                                             newSelected, colorIndex))
                /\ calls' = [c \in Calls |->
                                IF c \in InFlight
                                THEN [calls[c] EXCEPT !.deleted = @ \cup descendantIds]
                                ELSE calls[c]]
                /\ UNCHANGED <<colorIndex, isProcessing>>

deleteNode(nodeId) ==
    /\ UNCHANGED <<projectVars, services>>
    /\ ops < MaxOps
    /\ ops' = ops + 1
    /\ lastOp' = [op |-> IF nodeId # "root"
                             /\ findDescendantsOverflows(nodeId, edges, Len(edges))
                          THEN "RangeError" ELSE "deleteNode",
                   arg |-> nodeId]
    /\ undone' = undone
    /\ IF nodeId = "root"
       THEN UNCHANGED <<nodes, edges, selectedNodeId, colorIndex, isProcessing,
                        history, historyIndex, calls, layouts, synced, recorded>>
       ELSE IF findDescendantsOverflows(nodeId, edges, Len(edges))
       THEN \* RangeError: Maximum call stack size exceeded, thrown out of
            \* deleteNode before its set
            UNCHANGED <<nodes, edges, selectedNodeId, colorIndex, isProcessing,
                        history, historyIndex, calls, layouts, synced, recorded>>
       ELSE LET descendantIds == findDescendants(nodeId, edges, Len(edges))
                newNodes == nodesWithout(nodes, descendantIds)
                newEdges == edgesWithout(edges, descendantIds)
                newSelected == IF selectedNodeId = nodeId THEN "root" ELSE selectedNodeId
                saved == saveToHistory(newNodes, newEdges, newSelected, colorIndex,
                                       history, historyIndex)
            IN  /\ nodes' = newNodes
                /\ edges' = newEdges
                /\ selectedNodeId' = newSelected
                /\ history' = saved.history
                /\ historyIndex' = saved.historyIndex
                /\ synced' = syncToProject(newNodes, newEdges, colorIndex)
                \* layoutGraph() up to its await
                /\ layouts' = layouts (+) SetToBag({[nodes |-> newNodes, edges |-> newEdges]})
                /\ recorded' = Append(recorded, Snapshot(newNodes, newEdges,
                                                             newSelected, colorIndex))
                /\ calls' = [c \in Calls |->
                                IF c \in InFlight
                                THEN [calls[c] EXCEPT !.deleted = @ \cup descendantIds]
                                ELSE calls[c]]
                /\ UNCHANGED <<colorIndex, isProcessing>>

\* layoutGraph after its await
layoutGraph(l) ==
    /\ UNCHANGED <<projectVars, services>>
    /\ l \in BagToSet(layouts)
    /\ LET layouted == getLayoutedElements(l.nodes, l.edges)
       IN  /\ nodes' = layouted.nodes
           /\ edges' = layouted.edges
    /\ layouts' = layouts (-) SetToBag({l})
    /\ lastOp' = [op |-> "layoutGraph", arg |-> Undefined]
    /\ UNCHANGED <<selectedNodeId, colorIndex, isProcessing, history,
                   historyIndex, calls, synced, ops, recorded, undone>>

\* updateNodeLabel that writes the label into the node objects in place, the
\* entry at the cursor sharing them with the live graph
updateNodeLabelInPlace(nodeId, label) ==
    /\ UNCHANGED <<projectVars, services>>
    /\ ops < MaxOps
    /\ ops' = ops + 1
    /\ LET newNodes == [i \in 1..Len(nodes) |->
                           IF nodes[i].id = nodeId
                           THEN [nodes[i] EXCEPT !.label = label]
                           ELSE nodes[i]]
           saved == saveToHistory(newNodes, edges, selectedNodeId, colorIndex,
                                  [history EXCEPT ![historyIndex + 1].nodes = newNodes],
                                  historyIndex)
       IN  /\ nodes' = newNodes
           /\ history' = saved.history
           /\ historyIndex' = saved.historyIndex
           /\ synced' = syncToProject(newNodes, edges, colorIndex)
           /\ recorded' = Append(recorded, Snapshot(newNodes, edges,
                                                        selectedNodeId, colorIndex))
    /\ lastOp' = [op |-> "updateNodeLabel", arg |-> nodeId]
    /\ UNCHANGED <<edges, selectedNodeId, colorIndex, isProcessing, calls, layouts,
                   undone>>

\* updateNodeLabel that writes the label into the topic as well
updateNodeLabelAndTopic(nodeId, label) ==
    /\ UNCHANGED <<projectVars, services>>
    /\ ops < MaxOps
    /\ ops' = ops + 1
    /\ LET newNodes == [i \in 1..Len(nodes) |->
                           IF nodes[i].id = nodeId
                           THEN [nodes[i] EXCEPT !.label = label, !.topic = label]
                           ELSE nodes[i]]
           saved == saveToHistory(newNodes, edges, selectedNodeId, colorIndex,
                                  history, historyIndex)
       IN  /\ nodes' = newNodes
           /\ history' = saved.history
           /\ historyIndex' = saved.historyIndex
           /\ synced' = syncToProject(newNodes, edges, colorIndex)
           /\ recorded' = Append(recorded, Snapshot(newNodes, edges,
                                                        selectedNodeId, colorIndex))
    /\ lastOp' = [op |-> "updateNodeLabel", arg |-> nodeId]
    /\ UNCHANGED <<edges, selectedNodeId, colorIndex, isProcessing, calls, layouts,
                   undone>>

updateNodeLabel(nodeId, label) ==
    /\ UNCHANGED <<projectVars, services>>
    /\ ops < MaxOps
    /\ ops' = ops + 1
    /\ LET newNodes == [i \in 1..Len(nodes) |->
                           IF nodes[i].id = nodeId
                           THEN [nodes[i] EXCEPT !.label = label]
                           ELSE nodes[i]]
           saved == saveToHistory(newNodes, edges, selectedNodeId, colorIndex,
                                  history, historyIndex)
       IN  /\ nodes' = newNodes
           /\ history' = saved.history
           /\ historyIndex' = saved.historyIndex
           /\ synced' = syncToProject(newNodes, edges, colorIndex)
           /\ recorded' = Append(recorded, Snapshot(newNodes, edges,
                                                        selectedNodeId, colorIndex))
    /\ lastOp' = [op |-> "updateNodeLabel", arg |-> nodeId]
    /\ UNCHANGED <<edges, selectedNodeId, colorIndex, isProcessing, calls, layouts,
                   undone>>

setSelectedNodeId(id) ==
    /\ UNCHANGED <<projectVars, services>>
    /\ ops < MaxOps
    /\ ops' = ops + 1
    /\ selectedNodeId' = id
    /\ lastOp' = [op |-> "setSelectedNodeId", arg |-> id]
    /\ UNCHANGED <<nodes, edges, colorIndex, isProcessing, history,
                   historyIndex, calls, layouts, synced, recorded, undone>>

\* undo() that goes back to the first entry
undoStateToStart(h, idx, live) ==
    IF idx > 0
    THEN [nodes |-> JsonClone(h[1].nodes), edges |-> JsonClone(h[1].edges),
          selectedNodeId |-> h[1].selectedNodeId,
          colorIndex |-> h[1].colorIndex, historyIndex |-> 0]
    ELSE live

\* the store fields undo() sets, from history h and cursor idx; live holds
\* the current nodes, edges, selectedNodeId, colorIndex and historyIndex
undoState(h, idx, live) ==
    IF idx > 0
    THEN LET newIndex == idx - 1
             state == h[newIndex + 1]
         IN  [nodes |-> JsonClone(state.nodes), edges |-> JsonClone(state.edges),
              selectedNodeId |-> state.selectedNodeId,
              colorIndex |-> state.colorIndex, historyIndex |-> newIndex]
    ELSE live

\* redo() that applies the last entry again when the cursor is on it
redoStateClamped(h, idx, live) ==
    LET newIndex == IF idx < Len(h) - 1 THEN idx + 1 ELSE idx
        state == h[newIndex + 1]
    IN  [nodes |-> JsonClone(state.nodes), edges |-> JsonClone(state.edges),
         selectedNodeId |-> state.selectedNodeId,
         colorIndex |-> state.colorIndex, historyIndex |-> newIndex]

redoState(h, idx, live) ==
    IF idx < Len(h) - 1
    THEN LET newIndex == idx + 1
             state == h[newIndex + 1]
         IN  [nodes |-> JsonClone(state.nodes), edges |-> JsonClone(state.edges),
              selectedNodeId |-> state.selectedNodeId,
              colorIndex |-> state.colorIndex, historyIndex |-> newIndex]
    ELSE live

Live == [nodes |-> nodes, edges |-> edges, selectedNodeId |-> selectedNodeId,
         colorIndex |-> colorIndex, historyIndex |-> historyIndex]

undo ==
    /\ UNCHANGED <<projectVars, services>>
    /\ ops < MaxOps
    /\ ops' = ops + 1
    /\ LET r == undoState(history, historyIndex, Live)
       IN  /\ nodes' = r.nodes
           /\ edges' = r.edges
           /\ selectedNodeId' = r.selectedNodeId
           /\ colorIndex' = r.colorIndex
           /\ historyIndex' = r.historyIndex
    /\ lastOp' = [op |-> "undo", arg |-> Undefined]
    /\ undone' = (undone \/ historyIndex > 0)
    /\ UNCHANGED <<isProcessing, history, calls, layouts, synced, recorded>>

redo ==
    /\ UNCHANGED <<projectVars, services>>
    /\ ops < MaxOps
    /\ ops' = ops + 1
    /\ LET r == redoState(history, historyIndex, Live)
       IN  /\ nodes' = r.nodes
           /\ edges' = r.edges
           /\ selectedNodeId' = r.selectedNodeId
           /\ colorIndex' = r.colorIndex
           /\ historyIndex' = r.historyIndex
    /\ lastOp' = [op |-> "redo", arg |-> Undefined]
    /\ UNCHANGED <<isProcessing, history, calls, layouts, synced, recorded, undone>>

resetGraph ==
    /\ UNCHANGED <<projectVars, services>>
    /\ ops < MaxOps
    /\ ops' = ops + 1
    /\ LET saved == saveToHistory(initialNodes, initialEdges, "root", 0,
                                  history, historyIndex)
       IN  /\ nodes' = initialNodes
           /\ edges' = initialEdges
           /\ selectedNodeId' = "root"
           /\ colorIndex' = 0
           /\ history' = saved.history
           /\ historyIndex' = saved.historyIndex
           /\ synced' = syncToProject(initialNodes, initialEdges, 0)
           /\ recorded' = Append(recorded, Snapshot(initialNodes, initialEdges,
                                                        "root", 0))
    /\ lastOp' = [op |-> "resetGraph", arg |-> Undefined]
    /\ UNCHANGED <<isProcessing, calls, layouts, undone>>

\* clearHistory on the store state (ns, es, sel, ci) with a second entry
\* left behind the snapshot
clearHistoryKeepOld(ns, es, sel, ci) ==
    [history |-> <<HistoryState(ns, es, sel, ci), HistoryState(nodes, edges, sel, ci)>>,
     historyIndex |-> 0]

\* clearHistory on the store state (ns, es, sel, ci): the new history and
\* historyIndex
clearHistory(ns, es, sel, ci) ==
    [history |-> <<HistoryState(ns, es, sel, ci)>>, historyIndex |-> 0]

\* the data a newly created project gets
NewProjectData == syncToProject(JsonClone(initialNodes), JsonClone(initialEdges), 0)

\* projects[id].data
ProjectData(id) == IF id = activeProjectId THEN synced ELSE stored[id]

\* the click on a project that is not the active one: switchProject(id),
\* setGraphState with the data of the project, clearHistory
switchProject(id) ==
    /\ ops < MaxOps
    /\ ops' = ops + 1
    /\ id # activeProjectId
    /\ LET data == ProjectData(id)
           cleared == clearHistory(JsonClone(data.nodes), JsonClone(data.edges),
                                   "root", data.colorIndex)
       IN  /\ nodes' = JsonClone(data.nodes)
           /\ edges' = JsonClone(data.edges)
           /\ colorIndex' = data.colorIndex
           /\ selectedNodeId' = "root"
           /\ history' = cleared.history
           /\ historyIndex' = cleared.historyIndex
           /\ synced' = data
           /\ recorded' = <<Snapshot(data.nodes, data.edges, "root", data.colorIndex)>>
    /\ activeProjectId' = id
    /\ UNCHANGED <<services, imports, contentHashes, resolved>>
    /\ stored' = [stored EXCEPT ![activeProjectId] = synced, ![id] = NewProjectData]
    /\ undone' = FALSE
    /\ lastOp' = [op |-> "switchProject", arg |-> id]
    /\ UNCHANGED <<isProcessing, calls, layouts>>

(***************************** export *************************************)
\* childrenMap.get(nodeId) || []: the targets of the edges out of nodeId,
\* in the order of the edges
RECURSIVE childrenMap(_, _)
childrenMap(es, nodeId) ==
    IF es = << >> THEN << >>
    ELSE IF Head(es).source = nodeId
         THEN <<Head(es).target>> \o childrenMap(Tail(es), nodeId)
         ELSE childrenMap(Tail(es), nodeId)

\* nodeMap.get(nodeId), as a sequence of 0 or 1 nodes: of the nodes with
\* one id the Map keeps the last
nodeMap(ns, nodeId) ==
    IF \E i \in 1..Len(ns) : ns[i].id = nodeId
    THEN <<ns[CHOOSE i \in 1..Len(ns) :
                  ns[i].id = nodeId /\ \A j \in (i+1)..Len(ns) : ns[j].id # nodeId]>>
    ELSE << >>

\* str.repeat(count)
RECURSIVE Repeat(_, _)
Repeat(str, count) == IF count = 0 THEN "" ELSE str \o Repeat(str, count - 1)

\* the line renderNode pushes for a label at a depth
MarkdownLine(label, depth) ==
    LET indent == Repeat("  ", depth)
        prefix == IF depth = 0 THEN "# " ELSE indent \o "- "
    IN  prefix \o label

\* the call stack overflows on edges that form a cycle
RangeError == <<"RangeError: Maximum call stack size exceeded">>

RECURSIVE renderNodePostOrder(_, _, _, _)
RECURSIVE renderChildrenPostOrder(_, _, _, _)
\* renderNode with the line pushed after the lines of the children
renderNodePostOrder(nodeId, depth, ns, es) ==
    IF depth > Len(es) THEN RangeError
    ELSE IF nodeMap(ns, nodeId) = << >> THEN << >>
    ELSE renderChildrenPostOrder(childrenMap(es, nodeId), depth + 1, ns, es)
         \o <<MarkdownLine(nodeMap(ns, nodeId)[1].label, depth)>>
renderChildrenPostOrder(children, depth, ns, es) ==
    IF children = << >> THEN << >>
    ELSE renderNodePostOrder(Head(children), depth, ns, es)
         \o renderChildrenPostOrder(Tail(children), depth, ns, es)

RECURSIVE renderNode(_, _, _, _)
RECURSIVE renderChildren(_, _, _, _)
\* the lines renderNode(nodeId, depth) pushes: none for an id that is no
\* node, else the line of the node and then the lines of its children
renderNode(nodeId, depth, ns, es) ==
    IF depth > Len(es) THEN RangeError
    ELSE IF nodeMap(ns, nodeId) = << >> THEN << >>
    ELSE <<MarkdownLine(nodeMap(ns, nodeId)[1].label, depth)>>
         \o renderChildren(childrenMap(es, nodeId), depth + 1, ns, es)
\* children.forEach((childId) => renderNode(childId, depth + 1))
renderChildren(children, depth, ns, es) ==
    IF children = << >> THEN << >>
    ELSE renderNode(Head(children), depth, ns, es)
         \o renderChildren(Tail(children), depth, ns, es)

\* lines after renderNode("root", 0)
MarkdownLines(ns, es) == renderNode("root", 0, ns, es)

\* lines.join(separator)
RECURSIVE Join(_, _)
Join(lines, separator) ==
    IF lines = << >> THEN ""
    ELSE IF Len(lines) = 1 THEN lines[1]
    ELSE lines[1] \o separator \o Join(Tail(lines), separator)

exportToMarkdown(ns, es) == Join(MarkdownLines(ns, es), "\n")

(***************************** import *************************************)
\* what JSON.parse makes of a file: a syntax error, null, or an object
\* whose nodes and edges are missing, no array, or an array
JsonArray(items) == [kind |-> "array", items |-> items]
JsonMissing == [kind |-> "undefined", items |-> << >>]
JsonObject == [kind |-> "object", items |-> << >>]

Parsed(ns, es) == [json |-> "object", nodes |-> ns, edges |-> es]
SyntaxError == [json |-> "error", nodes |-> JsonMissing, edges |-> JsonMissing]
JsonNull == [json |-> "null", nodes |-> JsonMissing, edges |-> JsonMissing]
NoFile == [json |-> "none", nodes |-> JsonMissing, edges |-> JsonMissing]

\* a child of the root as an export writes it
ExportedChild(id) ==
    [id |-> id, type |-> "satellite", position |-> [x |-> 0, y |-> 0],
     label |-> id, topic |-> "Main", color |-> "#636ef1",
     vector |-> NoVector, parentId |-> "root", isAnchor |-> FALSE]

ExportedEdge(source, target) == [source |-> source, target |-> target]

\* the files of the session: the export of a new project, two exports of
\* other graphs, and files that fail one check each
ImportFiles ==
    { Parsed(JsonArray(initialNodes), JsonArray(initialEdges)),
      Parsed(JsonArray(Append(initialNodes, ExportedChild("a"))),
             JsonArray(<<ExportedEdge("root", "a")>>)),
      Parsed(JsonArray(<<[initialNodes[1] EXCEPT !.label = "Imported"]>>),
             JsonArray(initialEdges)),
      SyntaxError,
      JsonNull,
      Parsed(JsonMissing, JsonArray(initialEdges)),
      Parsed(JsonArray(initialNodes), JsonObject),
      Parsed(JsonArray(<<[initialNodes[1] EXCEPT !.id = Undefined]>>),
             JsonArray(initialEdges)),
      Parsed(JsonArray(Append(initialNodes, [ExportedChild("a") EXCEPT !.label = ""])),
             JsonArray(<<ExportedEdge("root", "a")>>)),
      Parsed(JsonArray(initialNodes), JsonArray(<<ExportedEdge("root", "a")>>)) }

\* !value
Falsy(value) == value \in {Undefined, ""}

NoError == ""

\* the checks of importProject before the hash, without the check of the
\* edges
ValidationErrorNoEdgeCheck(parsed) ==
    CASE parsed.json = "error" -> "Failed to parse JSON"
      [] parsed.json = "null" -> "Cannot read properties of null"
      [] parsed.nodes.kind # "array" ->
            "Invalid JSON format: missing or invalid nodes array"
      [] parsed.edges.kind # "array" ->
            "Invalid JSON format: missing or invalid edges array"
      [] \E i \in 1..Len(parsed.nodes.items) :
            Falsy(parsed.nodes.items[i].id) \/ Falsy(parsed.nodes.items[i].label) ->
            "Invalid node structure"
      [] OTHER -> NoError

\* the checks of importProject before the hash, in the order of the code:
\* the error of the ImportResult, NoError when every check passes.
\* JSON.parse throws on a syntax error and parsed.nodes throws on null;
\* the catch returns the message
ValidationError(parsed) ==
    CASE parsed.json = "error" -> "Failed to parse JSON"
      [] parsed.json = "null" -> "Cannot read properties of null"
      [] parsed.nodes.kind # "array" ->
            "Invalid JSON format: missing or invalid nodes array"
      [] parsed.edges.kind # "array" ->
            "Invalid JSON format: missing or invalid edges array"
      [] \E i \in 1..Len(parsed.nodes.items) :
            Falsy(parsed.nodes.items[i].id) \/ Falsy(parsed.nodes.items[i].label) ->
            "Invalid node structure"
      [] \E i \in 1..Len(parsed.edges.items) :
            \/ parsed.edges.items[i].source \notin Ids(parsed.nodes.items)
            \/ parsed.edges.items[i].target \notin Ids(parsed.nodes.items) ->
            "Invalid edge references"
      [] OTHER -> NoError

\* the elements of a sequence with their multiplicities
BagOf(s) == [x \in Range(s) |-> Cardinality({i \in 1..Len(s) : s[i] = x})]

\* generateContentHash: the digest of the sorted semantic content, taken
\* as that content (the digest has no collisions here)
generateContentHash(ns, es) ==
    [nodes |-> BagOf([i \in 1..Len(ns) |->
                        [id |-> ns[i].id, label |-> ns[i].label,
                         parentId |-> ns[i].parentId, isAnchor |-> ns[i].isAnchor]]),
     edges |-> BagOf([i \in 1..Len(es) |->
                        [source |-> es[i].source, target |-> es[i].target]])]

\* projects[id].contentHash, once the promises that compute it have
\* resolved in the order of their calls
contentHash(id) == generateContentHash(ProjectData(id).nodes, ProjectData(id).edges)

\* the limit createProject checks
MAX_PROJECTS == 50

\* Object.values(projects): the projects in the order of their creation
ProjectOrder ==
    <<"p1", "p2">> \o [k \in 1..(MAX_PROJECTS + MaxImports + 1) |-> "i" \o ToString(k)]

\* generateProjectId: an id no other project has
generateProjectId ==
    "i" \o ToString(CHOOSE k \in 1..(Cardinality(DOMAIN stored) + 1) :
                        /\ "i" \o ToString(k) \notin DOMAIN stored
                        /\ \A j \in 1..(k - 1) : "i" \o ToString(j) \in DOMAIN stored)

\* findDuplicateByHash: the first project with the hash, or Undefined
findDuplicateByHash(hash) ==
    LET found == {k \in 1..Len(ProjectOrder) :
                     /\ ProjectOrder[k] \in DOMAIN stored
                     /\ contentHash(ProjectOrder[k]) = hash}
    IN  IF found = {} THEN Undefined
        ELSE ProjectOrder[CHOOSE k \in found : \A j \in found : k <= j]

ImportCalls == 1..MaxImports

NoResult == [success |-> FALSE, isDuplicate |-> FALSE, error |-> NoError,
             duplicateProject |-> Undefined, newProjectId |-> Undefined]

IdleImport == [pc |-> "idle", parsed |-> NoFile, result |-> NoResult]

\* importProject up to the await of the hash: JSON.parse and the checks of
\* the structure, the nodes and the edges
importProject(c, parsed) ==
    /\ imports[c].pc = "idle"
    /\ \A b \in 1..(c - 1) : imports[b].pc # "idle"
    /\ imports' = [imports EXCEPT ![c] =
          IF ValidationError(parsed) # NoError
          THEN [pc |-> "done", parsed |-> parsed,
                result |-> [NoResult EXCEPT !.error = ValidationError(parsed)]]
          ELSE [pc |-> "hashing", parsed |-> parsed, result |-> NoResult]]
    /\ lastOp' = [op |-> "importProject", arg |-> Undefined]
    /\ UNCHANGED <<nodes, edges, selectedNodeId, colorIndex, isProcessing,
                   history, historyIndex, calls, layouts, synced, ops,
                   recorded, undone, activeProjectId, stored, services,
                   contentHashes, resolved>>

\* importProject from the resolved hash to its return: the duplicate check
\* on the projects of now, and the set that adds the project
importProjectHashed(c) ==
    /\ imports[c].pc = "hashing"
    /\ LET parsed == imports[c].parsed
           hash == generateContentHash(parsed.nodes.items, parsed.edges.items)
           duplicate == findDuplicateByHash(hash)
           projectId == generateProjectId
       IN  IF duplicate # Undefined
           THEN /\ imports' = [imports EXCEPT ![c].pc = "done",
                                  ![c].result = [NoResult EXCEPT !.isDuplicate = TRUE,
                                                    !.duplicateProject = duplicate]]
                /\ UNCHANGED stored
           ELSE /\ stored' = [id \in DOMAIN stored \cup {projectId} |->
                                 IF id = projectId
                                 THEN [nodes |-> parsed.nodes.items,
                                       edges |-> parsed.edges.items,
                                       colorIndex |-> 0]
                                 ELSE stored[id]]
                /\ imports' = [imports EXCEPT ![c].pc = "done",
                                  ![c].result = [NoResult EXCEPT !.success = TRUE,
                                                    !.newProjectId = projectId]]
    /\ lastOp' = [op |-> "importProjectHashed", arg |-> Undefined]
    /\ UNCHANGED <<nodes, edges, selectedNodeId, colorIndex, isProcessing,
                   history, historyIndex, calls, layouts, synced, ops,
                   recorded, undone, activeProjectId, services,
                   contentHashes, resolved>>

\* the then of generateContentHash in syncActiveProjectData, for the k-th
\* sync of the active project: projects[activeProjectId].contentHash = hash
contentHashResolved(k) ==
    /\ k \in DOMAIN recorded \ resolved
    /\ contentHashes' = [contentHashes EXCEPT ![activeProjectId] =
                            generateContentHash(recorded[k].nodes, recorded[k].edges)]
    /\ resolved' = resolved \cup {k}
    /\ lastOp' = [op |-> "contentHashResolved", arg |-> Undefined]
    /\ UNCHANGED <<nodes, edges, selectedNodeId, colorIndex, isProcessing,
                   history, historyIndex, calls, layouts, synced, ops,
                   recorded, undone, activeProjectId, stored, services, imports>>

(*************************** specification ********************************)
Init ==
    /\ services = DefaultServices
    /\ nodes = initialNodes
    /\ edges = initialEdges
    /\ selectedNodeId = "root"
    /\ colorIndex = 0
    /\ isProcessing = FALSE
    /\ history = <<[nodes |-> initialNodes, edges |-> initialEdges,
                    selectedNodeId |-> "root", colorIndex |-> 0]>>
    /\ historyIndex = 0
    /\ calls = [c \in Calls |-> IdleCall]
    /\ layouts = EmptyBag
    /\ synced = syncToProject(initialNodes, initialEdges, 0)
    /\ ops = 0
    /\ lastOp = [op |-> "create", arg |-> Undefined]
    /\ recorded = << >>
    /\ undone = FALSE
    /\ activeProjectId = "p1"
    /\ stored = [p \in ProjectIds |-> NewProjectData]
    /\ imports = [c \in ImportCalls |-> IdleImport]
    /\ contentHashes = [p \in ProjectIds |-> contentHash(p)]
    /\ resolved = DOMAIN recorded

\* the nodes after updateNodeLabel("root", "e<i>")
RelabelledRoot(i) ==
    <<[initialNodes[1] EXCEPT !.label = "e" \o ToString(i)]>>

\* a long session: updateNodeLabel("root", "e<i>") has run for
\* i = 1..maxHistorySize on the initial store; the last of these recordings
\* has shifted the initial snapshot out
LongInit ==
    /\ services = DefaultServices
    /\ nodes = RelabelledRoot(maxHistorySize)
    /\ edges = initialEdges
    /\ selectedNodeId = "root"
    /\ colorIndex = 0
    /\ isProcessing = FALSE
    /\ history = [i \in 1..maxHistorySize |->
                     [nodes |-> RelabelledRoot(i), edges |-> initialEdges,
                      selectedNodeId |-> "root", colorIndex |-> 0]]
    /\ historyIndex = maxHistorySize - 1
    /\ calls = [c \in Calls |-> IdleCall]
    /\ layouts = EmptyBag
    /\ synced = syncToProject(RelabelledRoot(maxHistorySize), initialEdges, 0)
    /\ ops = 0
    /\ lastOp = [op |-> "updateNodeLabel", arg |-> "root"]
    /\ recorded = [i \in 1..maxHistorySize |->
                      Snapshot(RelabelledRoot(i), initialEdges, "root", 0)]
    /\ undone = FALSE
    /\ activeProjectId = "p1"
    /\ stored = [p \in ProjectIds |-> NewProjectData]
    /\ imports = [c \in ImportCalls |-> IdleImport]
    /\ contentHashes = [p \in ProjectIds |-> contentHash(p)]
    /\ resolved = DOMAIN recorded

Next ==
    \/ \E c \in Calls, text \in Texts, mode \in {"auto", "child"} :
          handleSubmit(c, text, mode)
    \/ \E c \in Calls, text \in Texts : handleAddSuggestion(c, text)
    \/ \E c \in Calls : addNodeEmbedded(c)
    \/ \E c \in Calls : addNodeLayouted(c)
    \/ \E nodeId \in Ids(nodes) \cup {selectedNodeId} : deleteNode(nodeId)
    \/ \E l \in BagToSet(layouts) : layoutGraph(l)
    \/ \E nodeId \in Ids(nodes), label \in Labels : updateNodeLabel(nodeId, label)
    \/ \E id \in Ids(nodes) : setSelectedNodeId(id)
    \/ undo
    \/ redo
    \/ resetGraph
    \/ \E id \in ProjectIds : switchProject(id)

Spec == Init /\ [][Next]_vars

(* Sessions that start from a graph built earlier: a project whose root is
   the initial root, or an imported root that carries a vector, loaded by
   the project switch, after which nodes "a", "b", "c" were added one by
   one as children of the node selected at the time. *)
SeedEntry(id, text, parentId) == [id |-> id, text |-> text, parentId |-> parentId]

Seeds ==
    {<< >>}
    \cup {<<SeedEntry("a", x, "root")>> : x \in SeedTexts}
    \cup {<<SeedEntry("a", x, "root"), SeedEntry("b", y, p)>> :
             x \in SeedTexts, y \in SeedTexts, p \in {"root", "a"}}
    \cup {<<SeedEntry("a", x, "root"), SeedEntry("b", y, p), SeedEntry("c", z, q)>> :
             x \in SeedTexts, y \in SeedTexts, z \in SeedTexts,
             p \in {"root", "a"}, q \in {"root", "a", "b"}}

\* the store after the project load: setGraphState and clearHistory
Loaded(ns) ==
    [nodes |-> ns, edges |-> initialEdges, selectedNodeId |-> "root",
     saved |-> clearHistory(ns, initialEdges, "root", 0),
     recorded |-> <<Snapshot(ns, initialEdges, "root", 0)>>]

\* the store after addNode has set the layouted graph and recorded it
Placed(st, id, layouted) ==
    [nodes |-> layouted.nodes, edges |-> layouted.edges, selectedNodeId |-> id,
     saved |-> saveToHistory(layouted.nodes, layouted.edges, id, 0,
                             st.saved.history, st.saved.historyIndex),
     recorded |-> Append(st.recorded, Snapshot(layouted.nodes, layouted.edges, id, 0))]

\* addNode(e.text, e.parentId) run to its end on the store st
AddSeed(st, e, p) ==
    Placed(st, e.id,
           getLayoutedElements(Append(st.nodes, NewNode(e.id, e.text, p)),
                               Append(st.edges, NewEdge(e.id, p))))

RECURSIVE Replay(_, _)
Replay(entries, st) ==
    IF entries = << >> THEN st
    ELSE Replay(Tail(entries),
                AddSeed(st, Head(entries),
                        ForcedPlacement(FindNode(st.nodes, Head(entries).parentId),
                                        getLocalEmbedding(Head(entries).text))))

\* the store is st, the embedding services are s, and left more operations
\* follow in the behaviour
ServedSession(st, left, s) ==
    /\ services = s
    /\ nodes = st.nodes
    /\ edges = st.edges
    /\ selectedNodeId = st.selectedNodeId
    /\ colorIndex = 0
    /\ isProcessing = FALSE
    /\ history = st.saved.history
    /\ historyIndex = st.saved.historyIndex
    /\ calls = [c \in Calls |-> IdleCall]
    /\ layouts = EmptyBag
    /\ synced = syncToProject(st.nodes, st.edges, 0)
    /\ ops = MaxOps - left
    /\ lastOp = IF Len(st.nodes) > 1
                THEN [op |-> "addNodeLayouted", arg |-> st.selectedNodeId]
                ELSE [op |-> "switchProject", arg |-> "p1"]
    /\ recorded = st.recorded
    /\ undone = FALSE
    /\ activeProjectId = "p1"
    /\ stored = [p \in ProjectIds |-> NewProjectData]
    /\ imports = [c \in ImportCalls |-> IdleImport]
    /\ contentHashes = [p \in ProjectIds |-> contentHash(p)]
    /\ resolved = DOMAIN recorded

\* the store is st and left more operations follow in the behaviour
SessionState(st, left) == ServedSession(st, left, DefaultServices)

\* any seed graph, under a root with or without a vector; one operation
\* follows
SeededInit ==
    \E entries \in Seeds, rootVector \in {NoVector, getLocalEmbedding("t1")} :
        SessionState(Replay(entries,
                            Loaded(<<[initialNodes[1] EXCEPT !.vector = rootVector]>>)),
                     1)

SeededSpec == SeededInit /\ [][Next]_vars

\* root -> a -> b with b selected; two operations follow
ChainInit ==
    \E x \in {"t1", "t4"}, y \in {"t1", "t4"} :
        SessionState(Replay(<<SeedEntry("a", x, "root"), SeedEntry("b", y, "a")>>,
                            Loaded(initialNodes)),
                     2)

ChainSpec == ChainInit /\ [][Next]_vars

\* the root of an imported project: data.color and data.topic are optional
ImportedRoots ==
    {[initialNodes[1] EXCEPT !.color = color, !.topic = topic] :
        color \in {"#636ef1", Undefined}, topic \in {"Main", Undefined}}

\* an imported root alone or with one child; two operations follow
ImportedInit ==
    \E root \in ImportedRoots,
       entries \in {<< >>} \cup {<<SeedEntry("a", x, "root")>> : x \in SeedTexts} :
        SessionState(Replay(entries, Loaded(<<root>>)), 2)

ImportedSpec == ImportedInit /\ [][Next]_vars

\* a root alone or with one child embedded by the local model, under any
\* provider setting and any failing services; one operation follows
ProviderInit ==
    \E s \in Services,
       entries \in {<< >>} \cup {<<SeedEntry("a", x, "root")>> : x \in SeedTexts} :
        ServedSession(Replay(entries, Loaded(initialNodes)), 1, s)

\* any seed graph embedded by the local model, in a session that embeds
\* with the local model or with the server; one operation follows
ServerInit ==
    \E entries \in Seeds,
       s \in {DefaultServices, [DefaultServices EXCEPT !.embeddingProvider = "server"]} :
        ServedSession(Replay(entries, Loaded(initialNodes)), 1, s)

ServerSpec == ServerInit /\ [][Next]_vars

\* three nodes with the vectors of t3, t5 and t6, c under root, a or b;
\* one operation follows
ClusterInit ==
    \E x \in {"t3", "t5", "t6"}, y \in {"t3", "t5", "t6"}, z \in {"t3", "t5", "t6"},
       p \in {"root", "a"}, q \in {"root", "a", "b"} :
        SessionState(Replay(<<SeedEntry("a", x, "root"), SeedEntry("b", y, p),
                              SeedEntry("c", z, q)>>,
                            Loaded(initialNodes)),
                     1)

ClusterSpec == ClusterInit /\ [][Next]_vars

\* the promises of the embedding chain and of the layout settle: an addNode
\* call that awaits is resumed
ProviderSpec ==
    /\ ProviderInit
    /\ [][Next]_vars
    /\ \A c \in Calls : WF_vars(addNodeEmbedded(c)) /\ WF_vars(addNodeLayouted(c))

LongSpec == LongInit /\ [][Next]_vars

\* a session without undo, redo, reset and project switch
PlacementNext ==
    \/ \E c \in Calls, text \in Texts, mode \in {"auto", "child"} :
          handleSubmit(c, text, mode)
    \/ \E c \in Calls, text \in Texts : handleAddSuggestion(c, text)
    \/ \E c \in Calls : addNodeEmbedded(c)
    \/ \E c \in Calls : addNodeLayouted(c)
    \/ \E nodeId \in Ids(nodes) \cup {selectedNodeId} : deleteNode(nodeId)
    \/ \E l \in BagToSet(layouts) : layoutGraph(l)
    \/ \E nodeId \in Ids(nodes), label \in Labels : updateNodeLabel(nodeId, label)
    \/ \E id \in Ids(nodes) : setSelectedNodeId(id)

PlacementSpec == Init /\ [][PlacementNext]_vars

\* a session of the project store: imports, clicks on projects, and edits
\* of the active project
ImportNext ==
    \/ \E c \in ImportCalls, parsed \in ImportFiles : importProject(c, parsed)
    \/ \E c \in ImportCalls : importProjectHashed(c)
    \/ \E id \in DOMAIN stored : switchProject(id)
    \/ \E nodeId \in Ids(nodes), label \in Labels : updateNodeLabel(nodeId, label)

ImportSpec == Init /\ [][ImportNext]_vars

\* files with the nodes root, a and b whose edges all run between these
\* nodes: a chain, a node with two parents, and a cycle
AdversarialFiles ==
    {Parsed(JsonArray(<<initialNodes[1], ExportedChild("a"), ExportedChild("b")>>),
            JsonArray(es)) :
        es \in {<<ExportedEdge("root", "a"), ExportedEdge("a", "b")>>,
                <<ExportedEdge("root", "a"), ExportedEdge("root", "b"),
                  ExportedEdge("a", "b")>>,
                <<ExportedEdge("root", "a"), ExportedEdge("a", "b"),
                  ExportedEdge("b", "a")>>}}

\* a session that imports such files, loads projects and deletes nodes
AdversarialNext ==
    \/ \E c \in ImportCalls, parsed \in AdversarialFiles : importProject(c, parsed)
    \/ \E c \in ImportCalls : importProjectHashed(c)
    \/ \E id \in DOMAIN stored : switchProject(id)
    \/ \E nodeId \in Ids(nodes) \cup {selectedNodeId} : deleteNode(nodeId)
    \/ \E l \in BagToSet(layouts) : layoutGraph(l)

AdversarialSpec == Init /\ [][AdversarialNext]_vars

\* a session in one project, with the hash promises of its syncs resolving
\* in any order
HashNext ==
    \/ \E c \in Calls, text \in Texts, mode \in {"auto", "child"} :
          handleSubmit(c, text, mode)
    \/ \E c \in Calls, text \in Texts : handleAddSuggestion(c, text)
    \/ \E c \in Calls : addNodeEmbedded(c)
    \/ \E c \in Calls : addNodeLayouted(c)
    \/ \E nodeId \in Ids(nodes) \cup {selectedNodeId} : deleteNode(nodeId)
    \/ \E l \in BagToSet(layouts) : layoutGraph(l)
    \/ \E nodeId \in Ids(nodes), label \in Labels : updateNodeLabel(nodeId, label)
    \/ resetGraph
    \/ \E k \in DOMAIN recorded : contentHashResolved(k)

HashSpec == Init /\ [][HashNext]_vars

\* a session in which the id of a new node may be one in use
RepeatedIdNext ==
    \/ \E c \in Calls, text \in Texts, mode \in {"auto", "child"} :
          handleSubmit(c, text, mode)
    \/ \E c \in Calls, text \in Texts : handleAddSuggestion(c, text)
    \/ \E c \in Calls : addNodeEmbeddedAnyId(c)
    \/ \E c \in Calls : addNodeLayouted(c)
    \/ \E nodeId \in Ids(nodes) \cup {selectedNodeId} : deleteNode(nodeId)
    \/ \E l \in BagToSet(layouts) : layoutGraph(l)
    \/ \E nodeId \in Ids(nodes), label \in Labels : updateNodeLabel(nodeId, label)
    \/ \E id \in Ids(nodes) : setSelectedNodeId(id)
    \/ undo
    \/ redo
    \/ resetGraph
    \/ \E id \in ProjectIds : switchProject(id)

RepeatedIdSpec == Init /\ [][RepeatedIdNext]_vars

(******************************* claims ***********************************)
Quiescent == InFlight = {} /\ layouts = EmptyBag

\* the addNode call c returns in this step
Finishes(c) == calls[c].pc = "layout" /\ calls'[c].pc = "done"

\* a handler that mutates the graph returns in this step
MutationStep ==
    \/ \E c \in Calls : Finishes(c)
    \/ /\ ops' = ops + 1
       /\ \/ lastOp'.op \in {"updateNodeLabel", "resetGraph"}
          \/ lastOp'.op = "deleteNode" /\ lastOp'.arg # "root"

RECURSIVE IsUnder(_, _, _, _)
\* id is x or has x among its ancestors (walking the edges upwards)
IsUnder(id, x, es, fuel) ==
    \/ id = x
    \/ /\ fuel > 0
       /\ \E i \in 1..Len(es) : es[i].target = id /\ IsUnder(es[i].source, x, es, fuel - 1)

StripPosition(n) == [n EXCEPT !.position = [x |-> 0, y |-> 0]]

\* C1: the edges form a tree below root: every non-root node is the target
\* of exactly one edge, root is the target of none, no node is its own
\* proper descendant
TreeInvariant ==
    /\ \A i \in 1..Len(nodes) :
          Cardinality({j \in 1..Len(edges) : edges[j].target = nodes[i].id})
             = IF nodes[i].id = "root" THEN 0 ELSE 1
    /\ \A j \in 1..Len(edges) : edges[j].target # "root"
    /\ \A j \in 1..Len(edges) :
          ~IsUnder(edges[j].source, edges[j].target, edges, Len(edges))

\* a satellite has just been placed under an anchor
TreeWitness ==
    /\ Len(nodes) = 3
    /\ \E j \in 1..Len(edges) : edges[j].source # "root"
    /\ lastOp.op = "addNodeLayouted"

\* C2: with nothing in flight and undo possible, undo() followed by redo()
\* leaves nodes, edges, selectedNodeId and colorIndex as they were
UndoRedoRoundTrip ==
    (Quiescent /\ canUndo) =>
        LET u == undoState(history, historyIndex, Live)
            r == redoState(history, u.historyIndex, u)
        IN  r = Live

\* C3: after maxHistorySize + k recordings (k > 0) without undo the history
\* holds exactly the last maxHistorySize recorded snapshots, in order, and
\* the cursor is on the most recent one
HistoryBound ==
    (~undone /\ Len(recorded) > maxHistorySize) =>
        LET k == Len(recorded) - maxHistorySize
        IN  /\ Len(history) = maxHistorySize
            /\ history = SubSeq(recorded, k + 1, Len(recorded))
            /\ historyIndex = Len(history) - 1
            /\ history[historyIndex + 1] = recorded[Len(recorded)]

HistoryBoundWitness ==
    /\ ~undone
    /\ Len(recorded) = maxHistorySize + 2
    /\ recorded[1] \notin Range(history)
    /\ recorded[2] \notin Range(history)

\* C4: deleteNode(X), X not root, removes exactly the nodes under X and the
\* edges touching them; every other node and edge stays as it is
CascadingDelete ==
    [][(ops' = ops + 1 /\ lastOp'.op = "deleteNode" /\ lastOp'.arg # "root") =>
          LET X == lastOp'.arg
              D == {id \in Ids(nodes) \cup {X} : IsUnder(id, X, edges, Len(edges))}
          IN  /\ nodes' = Filter(nodes, {n \in Range(nodes) : n.id \notin D})
              /\ edges' = Filter(edges, {e \in Range(edges) :
                                    e.source \notin D /\ e.target \notin D})]_vars

\* a node and its child have just been deleted together
CascadingDeleteWitness ==
    /\ lastOp.op = "deleteNode"
    /\ lastOp.arg # "root"
    /\ Len(recorded) >= 2
    /\ Len(recorded[Len(recorded) - 1].nodes) = Len(nodes) + 2
    /\ Len(recorded[Len(recorded) - 1].edges) = Len(edges) + 2

\* C5: when addNode returns, the graph is the graph of that moment plus the
\* new node and its edge: whatever completed during its awaits is kept
PlacementOnCurrentGraph ==
    [][\A c \in Calls : Finishes(c) =>
          /\ Len(nodes') = Len(nodes) + 1
          /\ \A i \in 1..Len(nodes) : StripPosition(nodes'[i]) = StripPosition(nodes[i])
          /\ Len(edges') = Len(edges) + 1
          /\ SubSeq(edges', 1, Len(edges)) = edges]_vars

\* C6: when the later of two overlapping addNode calls returns (the node of
\* the earlier still being in the graph), the graph has both new nodes, each
\* the target of one edge, and the history a snapshot of each call
ConcurrentPlacementsSerialize ==
    [][\A c, d \in Calls :
          ( /\ c # d
            /\ Finishes(c)
            /\ calls[d].pc = "done"
            /\ (d \in calls[c].during \/ c \in calls[d].during)
            /\ NewNodeId(d) \in Ids(nodes) ) =>
          /\ {NewNodeId(c), NewNodeId(d)} \subseteq Ids(nodes')
          /\ \A id \in {NewNodeId(c), NewNodeId(d)} :
                Cardinality({j \in 1..Len(edges') : edges'[j].target = id}) = 1
          /\ \A id \in {NewNodeId(c), NewNodeId(d)} :
                \E i \in 1..Len(history') : history'[i].selectedNodeId = id]_vars

\* C7: when addNode returns, no node deleted during its awaits (and still
\* absent) is in the graph, and the new node hangs under none of them
DeletionBeatsPlacement ==
    [][\A c \in Calls : Finishes(c) =>
          LET gone == calls[c].deleted \ Ids(nodes)
          IN  /\ Ids(nodes') \cap gone = {}
              /\ \A j \in 1..Len(edges') :
                    edges'[j].target = NewNodeId(c) => edges'[j].source \notin gone]_vars

HistoryCursorInvariant ==
    /\ Len(history) >= 1
    /\ 0 <= historyIndex
    /\ historyIndex < Len(history)
    /\ Len(history) <= maxHistorySize

\* a full history has overflowed once more
HistoryCursorWitness ==
    /\ Len(history) = maxHistorySize
    /\ historyIndex = maxHistorySize - 1
    /\ Len(recorded) = maxHistorySize + 1
    /\ lastOp.op = "addNodeLayouted"

\* C10: a recording keeps the entries up to the cursor, drops those after
\* it, appends the snapshot (dropping the oldest on overflow); then canRedo()
\* is false and redo() changes nothing
RecordTruncatesFuture ==
    [][MutationStep =>
          LET kept == SubSeq(history, 1, historyIndex + 1)
              full == Append(kept, history'[Len(history')])
          IN  /\ history' = (IF Len(full) > maxHistorySize THEN Tail(full) ELSE full)
              /\ ~canRedo'
              /\ redoState(history', historyIndex', Live') = Live']_vars

\* two undos, then a relabel that cut the two undone entries off
RecordTruncatesWitness ==
    /\ undone
    /\ lastOp.op = "updateNodeLabel"
    /\ Len(history) = maxHistorySize - 1
    /\ historyIndex = Len(history) - 1

\* the store fields a history entry holds
GraphFields == <<nodes, edges, selectedNodeId, colorIndex>>

\* C11: undo() with the cursor on the first entry and redo() with the
\* cursor on the last entry change none of nodes, edges, selectedNodeId,
\* colorIndex, history and historyIndex
UndoRedoAtBounds ==
    [][( /\ ops' = ops + 1
         /\ \/ lastOp'.op = "undo" /\ historyIndex = 0
            \/ lastOp'.op = "redo" /\ historyIndex = Len(history) - 1 ) =>
          UNCHANGED <<GraphFields, history, historyIndex>>]_vars

\* redo() has just been called on the last entry while the selection
\* differs from that entry's
UndoRedoAtBoundsWitness ==
    /\ lastOp.op = "redo"
    /\ historyIndex = Len(history) - 1
    /\ Len(history) > 1
    /\ selectedNodeId # history[historyIndex + 1].selectedNodeId

\* C12: undo() and redo() leave the history sequence as it is; when the
\* cursor can move they move it by exactly one and set nodes, edges,
\* selectedNodeId and colorIndex to the entry at the new cursor
UndoRedoFrame ==
    [][(ops' = ops + 1 /\ lastOp'.op \in {"undo", "redo"}) =>
          /\ history' = history
          /\ (lastOp'.op = "undo" /\ historyIndex > 0) =>
                historyIndex' = historyIndex - 1
          /\ (lastOp'.op = "redo" /\ historyIndex < Len(history) - 1) =>
                historyIndex' = historyIndex + 1
          /\ historyIndex' # historyIndex =>
                Snapshot(nodes', edges', selectedNodeId', colorIndex')
                   = history[historyIndex' + 1]]_vars

\* undo() has just moved the cursor from the third entry to the second
UndoRedoFrameWitness ==
    /\ lastOp.op = "undo"
    /\ Len(history) = 3
    /\ historyIndex = 1
    /\ Snapshot(nodes, edges, selectedNodeId, colorIndex) = history[2]
    /\ history[2] # history[3]

\* C13: a project switch leaves a history of exactly one entry, the graph
\* of the project switched to, with the cursor on it: undo() and redo()
\* change nothing and no entry of the project left remains
ClearHistoryOnSwitch ==
    [][(ops' = ops + 1 /\ lastOp'.op = "switchProject") =>
          LET data == ProjectData(lastOp'.arg)
          IN  /\ history' = <<Snapshot(data.nodes, data.edges, "root", data.colorIndex)>>
              /\ history' = <<Snapshot(nodes', edges', selectedNodeId', colorIndex')>>
              /\ historyIndex' = 0
              /\ ~canUndo' /\ ~canRedo'
              /\ undoState(history', historyIndex', Live') = Live'
              /\ redoState(history', historyIndex', Live') = Live']_vars

\* the project left had a node more than the project switched to
ClearHistoryOnSwitchWitness ==
    /\ lastOp.op = "switchProject"
    /\ activeProjectId = "p2"
    /\ Len(stored["p1"].nodes) > Len(nodes)
    /\ Len(history) = 1

UnknownForcedParentRejected ==
    [][\A c \in Calls :
          ( /\ Finishes(c)
            /\ calls[c].forceParentId # Undefined
            /\ calls[c].forceParentId \notin Ids(calls[c].nodes) ) =>
          /\ NewNodeId(c) \notin Ids(nodes')
          /\ \A j \in 1..Len(edges') : edges'[j].target # NewNodeId(c)
          /\ history' = history]_vars

\* C16: deleteNode(X), X not root, with the selected node in the subtree of
\* X sets selectedNodeId to "root"; a selection that named a node of the
\* graph before the deletion names one after it
SelectionAfterDelete ==
    [][(ops' = ops + 1 /\ lastOp'.op = "deleteNode" /\ lastOp'.arg # "root") =>
          /\ IsUnder(selectedNodeId, lastOp'.arg, edges, Len(edges)) =>
                selectedNodeId' = "root"
          /\ selectedNodeId \in Ids(nodes) => selectedNodeId' \in Ids(nodes')]_vars

\* the addNode calls without forced parent that have built their node
AutoPlaced == {c \in Calls : calls[c].pc = "layout" /\ calls[c].forceParentId = Undefined}

\* what findBestParent returns for the text of call c on the graph c captured
BestFor(c) == findBestParent(getEmbedding(calls[c].text), calls[c].nodes, calls[c].edges)

\* the node call c has appended, and its edge
Appended(c) == [node |-> calls[c].newNodes[Len(calls[c].newNodes)],
                edge |-> calls[c].newEdges[Len(calls[c].newEdges)]]

\* the appended node and edge a follow the threshold rule on result
PlacedByThreshold(result, a) ==
    IF result.node # NoNode /\ result.similarity > similarityThreshold
    THEN /\ a.node.type = "satellite"
         /\ a.node.parentId = result.node[1].id
         /\ a.edge.source = result.node[1].id
    ELSE /\ a.node.type = "anchor"
         /\ a.node.parentId = "root"
         /\ a.edge.source = "root"

CandidateIndices(ns) ==
    {i \in 1..Len(ns) : ns[i].id # "root" /\ ns[i].vector # NoVector}

\* at least 3 candidates and at least one edge
Structured(ns, es) == Cardinality(CandidateIndices(ns)) >= 3 /\ Len(es) >= 1

\* the candidates with a child, and those without
HeadIndices(ns, es) ==
    {i \in CandidateIndices(ns) : \E j \in 1..Len(es) : es[j].source = ns[i].id}

LeafIndices(ns, es) == CandidateIndices(ns) \ HeadIndices(ns, es)

\* the raw similarity of ns[i] to v
DirectSim(v, ns, i) == cosineSimilarity(v, ns[i].vector)

\* the similarity of the centroid of the subtree of ns[i] to v
ClusterSim(v, ns, es, i) ==
    cosineSimilarity(v, computeCentroid(getDescendantVectors(ns[i].id, ns, es)))

\* ten times the blended score 0.7 * clusterSim + 0.3 * directSim
Blended(v, ns, es, i) == 7 * ClusterSim(v, ns, es, i) + 3 * DirectSim(v, ns, i)

\* the first head with the greatest blended score
SelectedHead(v, ns, es) ==
    CHOOSE i \in HeadIndices(ns, es) :
        \A j \in HeadIndices(ns, es) :
            \/ Blended(v, ns, es, j) < Blended(v, ns, es, i)
            \/ Blended(v, ns, es, j) = Blended(v, ns, es, i) /\ i <= j

\* the first leaf with the greatest raw similarity
SelectedLeaf(v, ns, es) ==
    CHOOSE i \in LeafIndices(ns, es) :
        \A j \in LeafIndices(ns, es) :
            \/ DirectSim(v, ns, j) < DirectSim(v, ns, i)
            \/ DirectSim(v, ns, j) = DirectSim(v, ns, i) /\ i <= j

\* in the structured regime with a head and a leaf, result is the leaf
\* exactly when its raw similarity is strictly greater than the head's
TieBreakOn(v, ns, es, result) ==
    ( /\ Structured(ns, es)
      /\ HeadIndices(ns, es) # {}
      /\ LeafIndices(ns, es) # {} ) =>
        result.node =
            IF DirectSim(v, ns, SelectedLeaf(v, ns, es))
                 > DirectSim(v, ns, SelectedHead(v, ns, es))
            THEN <<ns[SelectedLeaf(v, ns, es)]>>
            ELSE <<ns[SelectedHead(v, ns, es)]>>

\* C18: in the structured regime, when a best cluster head and a best leaf
\* exist, findBestParent returns the leaf if and only if the raw similarity
\* of the leaf is strictly greater than the raw similarity of the head,
\* whatever the blended score of the head
TieBreakByRawSimilarity ==
    \A c \in AutoPlaced :
        TieBreakOn(getEmbedding(calls[c].text), calls[c].nodes, calls[c].edges,
                   BestFor(c))

\* the head is returned for call c although the leaf beats its blended score
HeadDespiteScore(v, ns, es, result) ==
    /\ Structured(ns, es)
    /\ HeadIndices(ns, es) # {}
    /\ LeafIndices(ns, es) # {}
    /\ result.node = <<ns[SelectedHead(v, ns, es)]>>
    /\ 10 * DirectSim(v, ns, SelectedLeaf(v, ns, es))
          > Blended(v, ns, es, SelectedHead(v, ns, es))

TieBreakWitness ==
    \E c \in AutoPlaced :
        HeadDespiteScore(getEmbedding(calls[c].text), calls[c].nodes, calls[c].edges,
                         BestFor(c))

\* in the sparse regime result is a candidate of greatest raw similarity,
\* with that similarity
SparseOn(v, ns, es, result) ==
    ( /\ CandidateIndices(ns) # {}
      /\ ~Structured(ns, es) ) =>
        \E i \in CandidateIndices(ns) :
            /\ result.node = <<ns[i]>>
            /\ result.similarity = DirectSim(v, ns, i)
            /\ \A j \in CandidateIndices(ns) : DirectSim(v, ns, j) <= DirectSim(v, ns, i)

\* C19: with fewer than 3 candidates, or no edge, findBestParent returns
\* the candidate of greatest direct cosine similarity to the new vector,
\* and that similarity
SparseRegimeMaximum ==
    \A c \in AutoPlaced :
        SparseOn(getEmbedding(calls[c].text), calls[c].nodes, calls[c].edges, BestFor(c))

\* result names no node, or a node of ns that is not the root and has a
\* vector
NonRootOn(ns, result) ==
    \/ result.node = NoNode
    \/ /\ result.node[1] \in Range(ns)
       /\ result.node[1].id # "root"
       /\ result.node[1].vector # NoVector

\* C20: findBestParent and findParentForNewNode return null or a node of
\* the graph that is not the root and carries a vector, also when the root
\* carries the vector of greatest similarity
RootNeverCandidate ==
    \A c \in AutoPlaced :
        /\ NonRootOn(calls[c].nodes, BestFor(c))
        /\ NonRootOn(calls[c].nodes,
                     [node |-> findParentForNewNode(getEmbedding(calls[c].text),
                                   calls[c].nodes, calls[c].edges, similarityThreshold)])

\* the root carries the vector of the new text, no candidate is as similar
RootNeverCandidateWitness ==
    \E c \in AutoPlaced :
        /\ FindNode(calls[c].nodes, "root")[1].vector = getEmbedding(calls[c].text)
        /\ CandidateIndices(calls[c].nodes) # {}
        /\ \A i \in CandidateIndices(calls[c].nodes) :
              DirectSim(getEmbedding(calls[c].text), calls[c].nodes, i) < SimUnit
        /\ BestFor(c).node # NoNode

\* the node with id newNodeId in ns is an anchor with topic text, and its
\* only incoming edge in es comes from root
AnchorUnderRoot(ns, es, newNodeId, text) ==
    /\ FindNode(ns, newNodeId) # NoNode
    /\ FindNode(ns, newNodeId)[1].type = "anchor"
    /\ FindNode(ns, newNodeId)[1].isAnchor
    /\ FindNode(ns, newNodeId)[1].topic = text
    /\ FindNode(ns, newNodeId)[1].label = text
    /\ Cardinality({j \in 1..Len(es) : es[j].target = newNodeId}) = 1
    /\ \A j \in 1..Len(es) : es[j].target = newNodeId => es[j].source = "root"

\* C21: when no node other than root carries a vector, findBestParent
\* returns {null, 0}, and the addNode call without forced parent leaves an
\* anchor whose single incoming edge comes from root and whose topic is its
\* text
NoCandidateNewAnchor ==
    [][\A c \in Calls :
          ( /\ Finishes(c)
            /\ calls[c].forceParentId = Undefined
            /\ CandidateIndices(calls[c].nodes) = {} ) =>
          /\ BestFor(c) = [node |-> NoNode, similarity |-> 0]
          /\ AnchorUnderRoot(nodes', edges', NewNodeId(c), calls[c].text)]_vars

\* an anchor has just been placed on a graph of the root alone, a root
\* that carries the vector of the new text
NoCandidateNewAnchorWitness ==
    /\ lastOp.op = "addNodeLayouted"
    /\ Len(nodes) = 2
    /\ nodes[1].id = "root"
    /\ nodes[1].vector = nodes[2].vector
    /\ AnchorUnderRoot(nodes, edges, lastOp.arg, nodes[2].label)

\* the addNode call c builds its node and edge in this step
Builds(c) == calls[c].pc = "embedding" /\ calls'[c].pc = "layout"

\* C22: a placement that creates an anchor gives it the palette entry at
\* colorIndex modulo the palette length and increases colorIndex by one; a
\* satellite placement, a deletion and a relabel leave colorIndex alone
AnchorColourCursor ==
    [][/\ \A c \in Calls : Builds(c) =>
             IF calls'[c].newNodes[Len(calls'[c].newNodes)].type = "anchor"
             THEN /\ calls'[c].newNodes[Len(calls'[c].newNodes)].color
                        = TOPIC_COLORS[(colorIndex % Len(TOPIC_COLORS)) + 1]
                  /\ colorIndex' = colorIndex + 1
             ELSE colorIndex' = colorIndex
       /\ (\E c \in Calls : Finishes(c)) => colorIndex' = colorIndex
       /\ (ops' = ops + 1 /\ lastOp'.op \in {"deleteNode", "updateNodeLabel"}) =>
             colorIndex' = colorIndex]_vars

\* the addNode calls with a forced parent that is a node of the graph they
\* captured
ForcedOnExisting ==
    {c \in Calls : /\ calls[c].forceParentId # Undefined
                   /\ calls[c].forceParentId \in Ids(calls[c].nodes)}

\* n is a satellite of P with the given colour and topic, and its single
\* incoming edge in es comes from P
SatelliteOf(n, es, P, color, topic) ==
    /\ n.type = "satellite"
    /\ ~n.isAnchor
    /\ n.parentId = P.id
    /\ n.color = color
    /\ n.topic = topic
    /\ Cardinality({j \in 1..Len(es) : es[j].target = n.id}) = 1
    /\ \A j \in 1..Len(es) : es[j].target = n.id => es[j].source = P.id

\* C23 (as stated): addNode(text, P) with P a node of the graph adds a
\* satellite whose single incoming edge comes from P and whose colour and
\* topic are those of P; colorIndex is unchanged
ManualAttachInherits ==
    [][\A c \in ForcedOnExisting : Builds(c) =>
          /\ SatelliteOf(calls'[c].newNodes[Len(calls'[c].newNodes)], calls'[c].newEdges,
                         FindNode(calls[c].nodes, calls[c].forceParentId)[1],
                         FindNode(calls[c].nodes, calls[c].forceParentId)[1].color,
                         FindNode(calls[c].nodes, calls[c].forceParentId)[1].topic)
          /\ colorIndex' = colorIndex]_vars

\* C23 (amended): addNode(text, P) with P a node of the graph adds, whatever
\* the similarities, a satellite whose single incoming edge comes from P,
\* with the colour and topic of P where P has them and "#636ef1" and
\* "General" where P has none; colorIndex is unchanged
ManualAttach ==
    [][\A c \in ForcedOnExisting : Builds(c) =>
          /\ SatelliteOf(calls'[c].newNodes[Len(calls'[c].newNodes)], calls'[c].newEdges,
                         FindNode(calls[c].nodes, calls[c].forceParentId)[1],
                         OrDefault(FindNode(calls[c].nodes, calls[c].forceParentId)[1].color,
                                   "#636ef1"),
                         OrDefault(FindNode(calls[c].nodes, calls[c].forceParentId)[1].topic,
                                   "General"))
          /\ colorIndex' = colorIndex]_vars

\* a satellite has been built under a forced parent that has a vector and
\* that the similarity resolution would not have returned
ManualAttachWitness ==
    \E c \in ForcedOnExisting :
        /\ calls[c].pc = "layout"
        /\ FindNode(calls[c].nodes, calls[c].forceParentId)[1].vector # NoVector
        /\ findParentForNewNode(getEmbedding(calls[c].text), calls[c].nodes,
                                calls[c].edges, similarityThreshold) = NoNode
        /\ Appended(c).node.type = "satellite"
        /\ Appended(c).edge.source = calls[c].forceParentId

\* C24: updateNodeLabel(id, label) changes nothing but the label of the
\* node with that id: every other field of every node, the order and ids
\* of the nodes, the edges, selectedNodeId and colorIndex stay as they are
RelabelFrame ==
    [][(ops' = ops + 1 /\ lastOp'.op = "updateNodeLabel") =>
          /\ Len(nodes') = Len(nodes)
          /\ \A i \in 1..Len(nodes) :
                /\ [nodes'[i] EXCEPT !.label = nodes[i].label] = nodes[i]
                /\ nodes[i].id # lastOp'.arg => nodes'[i] = nodes[i]
          /\ UNCHANGED <<edges, selectedNodeId, colorIndex>>]_vars

\* a node with a vector, a parent and a topic of its own has just been
\* relabelled, in a graph that has another node besides the root
RelabelFrameWitness ==
    /\ lastOp.op = "updateNodeLabel"
    /\ lastOp.arg # "root"
    /\ Len(nodes) = 3
    /\ \E i \in 1..Len(nodes) :
          /\ nodes[i].id = lastOp.arg
          /\ nodes[i].label \in Labels
          /\ nodes[i].vector # NoVector
          /\ nodes[i].topic \in Texts
          /\ history[historyIndex].nodes[i].label # nodes[i].label

\* h without its last entry
AllButLast(h) == SubSeq(h, 1, Len(h) - 1)

ResolvedVector(text, s) ==
    IF s.embeddingProvider = "local" /\ ~s.localFails THEN getLocalEmbedding(text)
    ELSE IF ~s.serverFails THEN ServerData(text)
    ELSE generateFallbackEmbedding(text)

\* C26: whichever of the local model and the server call fails, getEmbedding
\* resolves (local, else server, else the generated vector); the addNode
\* call that awaits it builds its node with that vector, and eventually
\* returns with one node and one edge more than the graph it started from
\* and isProcessing false
EmbeddingFailureNotFatal ==
    /\ [][\A c \in Calls :
            /\ (calls[c].pc = "embedding" /\ calls'[c].pc # "embedding") =>
                  /\ Builds(c)
                  /\ calls'[c].newNodes[Len(calls'[c].newNodes)].vector
                        = ResolvedVector(calls[c].text, services)
            /\ Finishes(c) =>
                  /\ Len(nodes') = Len(calls[c].nodes) + 1
                  /\ Len(edges') = Len(calls[c].edges) + 1
                  /\ NewNodeId(c) \in Ids(nodes')
                  /\ Cardinality({j \in 1..Len(edges') : edges'[j].target = NewNodeId(c)}) = 1
                  /\ isProcessing' = FALSE]_vars
    /\ \A c \in Calls : (calls[c].pc = "embedding") ~> (calls[c].pc = "done")

\* with the local model and the server both failing, a node that carries
\* the generated vector of its text has been added and isProcessing is
\* false
EmbeddingFailureWitness ==
    /\ services.localFails
    /\ services.serverFails
    /\ lastOp.op = "addNodeLayouted"
    /\ ~isProcessing
    /\ FindNode(nodes, lastOp.arg) # NoNode
    /\ FindNode(nodes, lastOp.arg)[1].vector
          = generateFallbackEmbedding(FindNode(nodes, lastOp.arg)[1].label)
    /\ \E j \in 1..Len(edges) : edges[j].target = lastOp.arg

\* the dimension of v differs from that of the vector of every candidate
DimensionMismatch(v, ns) ==
    /\ CandidateIndices(ns) # {}
    /\ \A i \in CandidateIndices(ns) : Len(ns[i].vector) # Len(v)

\* every similarity of v is 0, result has a similarity of 0 and a is an
\* anchor under root
DegradesToAnchor(v, ns, es, result, a) ==
    /\ \A i \in CandidateIndices(ns) :
          DirectSim(v, ns, i) = 0 /\ ClusterSim(v, ns, es, i) = 0
    /\ result.similarity = 0
    /\ result.similarity <= similarityThreshold
    /\ a.node.type = "anchor"
    /\ a.node.parentId = "root"
    /\ a.edge.source = "root"
    /\ a.node.vector = v

\* C27: when the dimension of the new vector differs from that of every
\* stored vector, every similarity is 0, the similarity findBestParent
\* returns does not exceed the threshold, and addNode builds an anchor
\* under root
DimensionMismatchPlaces ==
    \A c \in AutoPlaced :
        DimensionMismatch(getEmbedding(calls[c].text), calls[c].nodes) =>
            DegradesToAnchor(getEmbedding(calls[c].text), calls[c].nodes, calls[c].edges,
                             BestFor(c), Appended(c))

\* the structured regime under a mismatch: three stored vectors of the
\* local model, one of them of the text itself, and a new vector of the
\* server; the new node is an anchor
DimensionMismatchWitness ==
    \E c \in AutoPlaced :
        /\ DimensionMismatch(getEmbedding(calls[c].text), calls[c].nodes)
        /\ Structured(calls[c].nodes, calls[c].edges)
        /\ HeadIndices(calls[c].nodes, calls[c].edges) # {}
        /\ \E i \in CandidateIndices(calls[c].nodes) :
              calls[c].nodes[i].label = calls[c].text
        /\ Appended(c).node.type = "anchor"

\* the projects map: the data of every project
Projects == [id \in DOMAIN stored |-> ProjectData(id)]

\* every check of the import passes on the parsed file
PassesEveryCheck(parsed) ==
    /\ parsed.json = "object"
    /\ parsed.nodes.kind = "array"
    /\ parsed.edges.kind = "array"
    /\ \A i \in 1..Len(parsed.nodes.items) :
          ~Falsy(parsed.nodes.items[i].id) /\ ~Falsy(parsed.nodes.items[i].label)
    /\ \A i \in 1..Len(parsed.edges.items) :
          /\ \E j \in 1..Len(parsed.nodes.items) :
                parsed.nodes.items[j].id = parsed.edges.items[i].source
          /\ \E j \in 1..Len(parsed.nodes.items) :
                parsed.nodes.items[j].id = parsed.edges.items[i].target
    /\ \A id \in DOMAIN stored :
          contentHash(id) # generateContentHash(parsed.nodes.items, parsed.edges.items)

\* C28: import is atomic.  No step of an importProject call changes
\* activeProjectId; the step on which a call returns a rejection, and the
\* step that leaves it awaiting the hash, leave the projects map as it was;
\* the step on which a call returns success is taken only when the file
\* passes every check, and adds one project, with the graph of the file,
\* to a map that is otherwise as before
ImportAtomic ==
    [][\A c \in ImportCalls :
          imports'[c] # imports[c] =>
             /\ activeProjectId' = activeProjectId
             /\ IF imports'[c].pc = "done" /\ imports'[c].result.success
                THEN /\ PassesEveryCheck(imports'[c].parsed)
                     /\ \E id \in DOMAIN Projects' \ DOMAIN Projects :
                           /\ DOMAIN Projects' = DOMAIN Projects \cup {id}
                           /\ Projects'[id].nodes = imports'[c].parsed.nodes.items
                           /\ Projects'[id].edges = imports'[c].parsed.edges.items
                           /\ \A p \in DOMAIN Projects : Projects'[p] = Projects[p]
                ELSE Projects' = Projects]_vars

\* one call has returned the rejection of an edge that references no node,
\* and another has added its file while the active project was an edited
\* one
ImportAtomicWitness ==
    /\ \E c \in ImportCalls : imports[c].result.error = "Invalid edge references"
    /\ \E c \in ImportCalls : imports[c].result.success
    /\ synced.nodes # initialNodes

\* the ids of the nodes of the tree: those under root along the edges
TreeIds(ns, es) ==
    {ns[i].id : i \in {j \in 1..Len(ns) : IsUnder(ns[j].id, "root", es, Len(es))}}

\* a is a proper ancestor of b
Ancestor(a, b, es) == a # b /\ IsUnder(b, a, es, Len(es))

\* the level of a node: the number of its proper ancestors
DepthOf(id, ns, es) == Cardinality({a \in Ids(ns) : Ancestor(a, id, es)})

\* m comes before n in the depth-first pre-order that follows the edges: m
\* is a proper ancestor of n, or m is in the subtree of a child of some
\* node and n in the subtree of a later child of that node
Before(m, n, es) ==
    \/ Ancestor(m, n, es)
    \/ \E i \in 1..Len(es), j \in 1..Len(es) :
          /\ i < j
          /\ es[i].source = es[j].source
          /\ es[i].target # es[j].target
          /\ IsUnder(m, es[i].target, es, Len(es))
          /\ IsUnder(n, es[j].target, es, Len(es))

\* the place of a node in that order
PreOrderIndex(n, ns, es) ==
    1 + Cardinality({m \in TreeIds(ns, es) : Before(m, n, es)})

\* two spaces per level
RECURSIVE Indentation(_)
Indentation(level) == IF level = 0 THEN "" ELSE " " \o " " \o Indentation(level - 1)

\* the line of the outline for a label at a level
OutlineLine(label, level) ==
    IF level = 0 THEN "# " \o label ELSE Indentation(level) \o "- " \o label

\* the lines are the outline of the tree (ns, es)
IsOutline(lines, ns, es) ==
    /\ Len(lines) = Cardinality(TreeIds(ns, es))
    /\ \A i \in 1..Len(ns) :
          ns[i].id \in TreeIds(ns, es) =>
             /\ PreOrderIndex(ns[i].id, ns, es) \in 1..Len(lines)
             /\ lines[PreOrderIndex(ns[i].id, ns, es)]
                   = OutlineLine(ns[i].label, DepthOf(ns[i].id, ns, es))
    /\ \A j \in 1..Len(es) :
          PreOrderIndex(es[j].source, ns, es) < PreOrderIndex(es[j].target, ns, es)

\* the text of the outline from its k-th line to its n-th, a newline between
\* two lines
RECURSIVE OutlineText(_, _, _, _)
OutlineText(k, n, ns, es) ==
    IF k > n THEN ""
    ELSE LET i == CHOOSE i \in 1..Len(ns) :
                     ns[i].id \in TreeIds(ns, es) /\ PreOrderIndex(ns[i].id, ns, es) = k
         IN  OutlineLine(ns[i].label, DepthOf(ns[i].id, ns, es))
             \o (IF k < n THEN "\n" ELSE "")
             \o OutlineText(k + 1, n, ns, es)

\* C29: in every reachable state exportToMarkdown of the graph has one line
\* per node of the tree under root, the line of a node at its place in the
\* depth-first pre-order that follows the edges, root as a "# " heading
\* and every other node as a "- " bullet behind two spaces per level, and
\* the line of a child after the line of its parent; the text returned is
\* these lines with a newline between two of them
MarkdownOutline ==
    /\ IsOutline(MarkdownLines(nodes, edges), nodes, edges)
    /\ exportToMarkdown(nodes, edges)
          = OutlineText(1, Cardinality(TreeIds(nodes, edges)), nodes, edges)

\* the export of a tree of four nodes, one of them with two children, after
\* a node at level 2 was relabelled: its bullet is the last line
MarkdownOutlineWitness ==
    /\ \E i \in 1..Len(edges), j \in 1..Len(edges) :
          i # j /\ edges[i].source = edges[j].source
    /\ lastOp.op = "updateNodeLabel"
    /\ Len(MarkdownLines(nodes, edges)) = 4
    /\ MarkdownLines(nodes, edges)[4] = "    - L1"

\* C30: in every reachable state no two nodes of the graph share an id
UniqueNodeIds ==
    \A i \in 1..Len(nodes), j \in 1..Len(nodes) : nodes[i].id = nodes[j].id => i = j

\* C31: in auto mode the new node is a satellite under P only if the cosine
\* of the new vector and P's own vector exceeds the threshold, whether P
\* was selected as a leaf or as a cluster head
RawSimilarityGate ==
    \A c \in AutoPlaced :
        Appended(c).node.type = "satellite" =>
            /\ FindNode(calls[c].nodes, Appended(c).node.parentId) # NoNode
            /\ cosineSimilarity(getEmbedding(calls[c].text),
                                FindNode(calls[c].nodes, Appended(c).node.parentId)[1].vector)
                  > similarityThreshold

\* the node ids with their labels, and the edges, of a graph
Content(ns, es) ==
    [labels |-> {<<ns[i].id, ns[i].label>> : i \in 1..Len(ns)},
     edges |-> {<<es[j].source, es[j].target>> : j \in 1..Len(es)}]

\* C32: whenever no addNode and no layoutGraph call is in flight, the node
\* ids, the labels and the edges of the live graph are those of the
\* snapshot at the history cursor
LiveAgreesWithCursor ==
    Quiescent =>
        Content(nodes, edges)
           = Content(history[historyIndex + 1].nodes, history[historyIndex + 1].edges)

\* C33: when an addNode call that started in one project returns while
\* another project is the active one, the graph it built does not become
\* the live graph, is not recorded in the history, and is not synced into
\* the record of the active project
PlacementStaysInProject ==
    [][\A c \in Calls :
          (Finishes(c) /\ calls[c].project # activeProjectId) =>
             /\ nodes' # getLayoutedElements(calls[c].newNodes, calls[c].newEdges).nodes
             /\ history' = history
             /\ synced' = synced]_vars

\* C34: isProcessing is true whenever an addNode call has started and has
\* not returned
ProcessingTracksInFlight == InFlight # {} => isProcessing

\* C35: deleteNode terminates on every graph that becomes the live graph:
\* no call of it ends in the overflow of the call stack
DeleteNodeTerminates == lastOp.op # "RangeError"

\* C36: in every reachable state, for every edge whose target is a
\* satellite, the colour and the topic of the target are those of the
\* source
ColourTopicLineage ==
    \A j \in 1..Len(edges) :
        \A i \in 1..Len(nodes) :
            (nodes[i].id = edges[j].target /\ nodes[i].type = "satellite") =>
                /\ FindNode(nodes, edges[j].source) # NoNode
                /\ nodes[i].color = FindNode(nodes, edges[j].source)[1].color
                /\ nodes[i].topic = FindNode(nodes, edges[j].source)[1].topic

\* C37: once every generateContentHash promise has resolved, the
\* contentHash of every project is the hash of the nodes and edges the
\* project has, in whatever order the promises resolved
ContentHashFresh ==
    resolved = DOMAIN recorded =>
        \A p \in ProjectIds :
            contentHashes[p]
               = generateContentHash(ProjectData(p).nodes, ProjectData(p).edges)

(*************************** project count ********************************)
\* createProject: the check of the limit, the check of the storage size
\* (storageFull: getStorageSize() > STORAGE_MAX_THRESHOLD), and the set
\* that adds a project with the initial graph
createProject(storageFull) ==
    /\ ops < MaxOps
    /\ ops' = ops + 1
    /\ IF Cardinality(DOMAIN stored) >= MAX_PROJECTS \/ storageFull
       THEN /\ lastOp' = [op |-> "createProject", arg |-> "Error"]
            /\ UNCHANGED stored
       ELSE /\ lastOp' = [op |-> "createProject", arg |-> generateProjectId]
            /\ stored' = [id \in DOMAIN stored \cup {generateProjectId} |->
                             IF id = generateProjectId THEN NewProjectData
                             ELSE stored[id]]
    /\ UNCHANGED <<nodes, edges, selectedNodeId, colorIndex, isProcessing,
                   history, historyIndex, calls, layouts, synced, recorded,
                   undone, activeProjectId, services, imports, contentHashes,
                   resolved>>

\* deleteProject(id): the check of the last project; for the active
\* project switchProject(sortedIds[0]), where next is the remaining project
\* with the latest modifiedAt, and the load of its data into the graph
\* store; then the set that removes the project
deleteProject(id, next) ==
    /\ ops < MaxOps
    /\ ops' = ops + 1
    /\ IF Cardinality(DOMAIN stored) = 1
       THEN /\ lastOp' = [op |-> "deleteProject", arg |-> "Error"]
            /\ UNCHANGED <<nodes, edges, selectedNodeId, colorIndex, history,
                           historyIndex, synced, recorded, undone,
                           activeProjectId, stored>>
       ELSE /\ lastOp' = [op |-> "deleteProject", arg |-> id]
            /\ IF id = activeProjectId
               THEN /\ next \in DOMAIN stored \ {id}
                    /\ LET data == stored[next]
                           cleared == clearHistory(JsonClone(data.nodes),
                                                   JsonClone(data.edges),
                                                   "root", data.colorIndex)
                       IN  /\ nodes' = JsonClone(data.nodes)
                           /\ edges' = JsonClone(data.edges)
                           /\ colorIndex' = data.colorIndex
                           /\ selectedNodeId' = "root"
                           /\ history' = cleared.history
                           /\ historyIndex' = cleared.historyIndex
                           /\ synced' = data
                           /\ recorded' = <<Snapshot(data.nodes, data.edges, "root",
                                                     data.colorIndex)>>
                    /\ activeProjectId' = next
                    /\ undone' = FALSE
                    /\ stored' = [p \in DOMAIN stored \ {id} |->
                                     IF p = next THEN NewProjectData ELSE stored[p]]
               ELSE /\ next = activeProjectId
                    /\ stored' = [p \in DOMAIN stored \ {id} |-> stored[p]]
                    /\ UNCHANGED <<nodes, edges, selectedNodeId, colorIndex,
                                   history, historyIndex, synced, recorded,
                                   undone, activeProjectId>>
    /\ UNCHANGED <<isProcessing, calls, layouts, services, imports,
                   contentHashes, resolved>>

\* the ids the session passes to deleteProject, and the projects that can
\* have the latest modifiedAt: the first projects, the first created one,
\* and an id no project has
DeletedIds == {"p1", "p2", "i1", "none"}

\* the files of the session that pass every check of importProject
ValidFiles == {parsed \in ImportFiles : ValidationError(parsed) = NoError}

\* the store after createProject has run created times since the start
CountInit ==
    /\ services = DefaultServices
    /\ nodes = initialNodes
    /\ edges = initialEdges
    /\ selectedNodeId = "root"
    /\ colorIndex = 0
    /\ isProcessing = FALSE
    /\ history = <<[nodes |-> initialNodes, edges |-> initialEdges,
                    selectedNodeId |-> "root", colorIndex |-> 0]>>
    /\ historyIndex = 0
    /\ calls = [c \in Calls |-> IdleCall]
    /\ layouts = EmptyBag
    /\ synced = syncToProject(initialNodes, initialEdges, 0)
    /\ ops = 0
    /\ lastOp = [op |-> "create", arg |-> Undefined]
    /\ recorded = << >>
    /\ undone = FALSE
    /\ activeProjectId = "p1"
    /\ \E created \in {0, MAX_PROJECTS - 3, MAX_PROJECTS - 2} :
          stored = [p \in ProjectIds \cup {"i" \o ToString(k) : k \in 1..created} |->
                       NewProjectData]
    /\ imports = [c \in ImportCalls |-> IdleImport]
    /\ contentHashes = [p \in ProjectIds |-> contentHash(p)]
    /\ resolved = DOMAIN recorded

\* a session on the project list: createProject, deleteProject and imports
CountNext ==
    \/ \E storageFull \in BOOLEAN : createProject(storageFull)
    \/ \E id \in DeletedIds, next \in DeletedIds : deleteProject(id, next)
    \/ \E c \in ImportCalls, parsed \in ValidFiles : importProject(c, parsed)
    \/ \E c \in ImportCalls : importProjectHashed(c)

CountSpec == CountInit /\ [][CountNext]_vars

\* C38: the number of stored projects never exceeds MAX_PROJECTS and never
\* drops below 1, whatever createProject, importProject and deleteProject
\* calls the session makes
ProjectCountBound ==
    /\ Cardinality(DOMAIN stored) <= MAX_PROJECTS
    /\ Cardinality(DOMAIN stored) >= 1

====
